---- MODULE Spec2Model ----
(***************************************************************************)
(* Model of the note-organizer storage and consistency engine:            *)
(*   - NoteManager (the repository: in-memory cache, load/save guards,    *)
(*     create/update/delete of notes and folders, validation),            *)
(*   - StorageManager (the IndexedDB store, modelled as a queue of        *)
(*     transactions executed in creation order).                          *)
(* JavaScript is single threaded: every action below is one event-loop    *)
(* task together with the microtasks (promise continuations) it triggers. *)
(***************************************************************************)
EXTENDS Integers, Sequences, FiniteSets, TLC

\* ---------------------------------------------------------------- bounds
MaxNotes == 2
MaxFolders == 1
MaxOps == 4
MaxFailures == 1
MaxTagListLen == 25
MaxTime == 5
MaxRecords == 2
MaxFieldOps == 3
MaxCycles == 2
MaxPageOps == 2
MaxInitCalls == 2
MaxStoreOps == 2
MaxBulk == 2
MaxObjs == 4
MaxEdOps == 5
MaxQNotes == 2
MaxIdOps == 4
MaxMillis == 2
MaxQueueOps == 4

\* ------------------------------------------------------ program constants
maxTagLength == 50
maxTagsPerNote == 20

\* ------------------------------------------------------------ value sets
Null == 0
NoteIds == 1..MaxNotes
FolderIds == 1..MaxFolders
Titles == {0, 1}
\* folder names: 0 is the empty (invalid) name, 1 a non-empty name
FolderNames == {0, 1}
Absent == [present |-> FALSE]

Note(t, f, fav) == [present |-> TRUE, title |-> t, folderId |-> f, isFavorite |-> fav]
Folder(n) == [present |-> TRUE, name |-> n]

NoNotes == [i \in NoteIds |-> Absent]
NoFolders == [i \in FolderIds |-> Absent]

VARIABLES
    notes,          \* NoteManager.notes   : id -> note or Absent
    noteOrder,      \* insertion order of the keys of NoteManager.notes
    folders,        \* NoteManager.folders : id -> folder or Absent
    saveInProgress, \* NoteManager.saveInProgress
    loadInProgress, \* NoteManager.loadInProgress
    dbNotes,        \* object store 'notes'
    dbFolders,      \* object store 'folders'
    txQueue,        \* IndexedDB transactions created and not yet finished
    nextNoteId,     \* next identifier generateId gives to a note (each new)
    nextFolderId,   \* next identifier generateId gives to a folder
    ops,            \* number of repository calls made so far
    failures,       \* number of store transactions that failed so far
    ret,            \* outcome of the call or promise that settled in this step
    lastSave,       \* data written by the save that completed in this step
    deletedOk,      \* notes whose deleteNote resolved true
    deleteRaced,    \* notes whose deleteNote was called during a load
    deletedFolders, \* folders whose deleteFolder returned true
    folderDelSaving,\* ... and started a save of its own (none was in progress)
    tagsIn,         \* input of validateTags
    tagsOut,        \* result of validateTags
    tagsDone,       \* validateTags has been applied
    valIn,          \* object given to validateNote / validateFolder
    valStore,       \* records that StorageManager.loadNotes returns
    valLenient,     \* outcome of validate(valIn, false)
    valStrict,      \* outcome of validate(valIn, true)
    valAgain,       \* outcome of validating the entity of valLenient again
    valCache,       \* NoteManager.notes after loadNotes of valStore
    valStep,        \* which of the above have been computed
    now,            \* the clock read by new Date()
    cur,            \* the note object held by NoteManager.notes (one id)
    born,           \* createdAt that createNote gave to cur
    fieldOps,       \* number of calls made on cur
    lastOp,         \* the call made in this step
    swPc,           \* where the service worker's syncNotes() is suspended
    swUnsynced,     \* ids of the notes getUnsyncedNotes resolved with
    swIdx,          \* position of the for loop of syncNotes in swUnsynced
    syncedCount,    \* syncedCount of syncNotes
    failedCount,    \* failedCount of syncNotes
    swLog,          \* what happened to each note of this cycle so far
    swResult,       \* how the promise of the last syncNotes() settled
    cycles,         \* number of sync events so far
    pushing,        \* notes whose syncSingleNote promise is pending
    dbConn,         \* StorageManager.db (Null or the open connection)
    initPromise,    \* StorageManager.initPromise
    connectionAttempts, \* StorageManager.connectionAttempts
    openPc,         \* where _initDatabase is suspended
    waited,         \* the delays _initDatabase has waited, in seconds
    timerDue,       \* when the retry timer of _initDatabase fires
    opened,         \* number of _openDatabase calls
    initCalls,      \* number of init() calls
    idbAvailable,   \* window.indexedDB is defined
    lastStoreOp,    \* outcome of the last saveNote call, with initCalls and lostAt then
    storeOps,       \* number of saveNote calls
    lostAt,         \* number of init() calls made when onclose last fired
    bulkData,       \* argument of StorageManager.saveNotes
    bulkPromise,    \* state of the promise saveNotes returned
    bulkPc,         \* state of the transaction saveNotes created
    bulkQueue,      \* put requests issued and not yet processed
    completed,      \* completed of saveNotes
    bulkTent,       \* the stores as the running transaction sees them
    bulkBefore,     \* the stores when saveNotes was called
    bulkFailed,     \* a put or the transaction of this call has failed
    bulkSeen,       \* what a loadNotes after the call has read
    heap,           \* the note objects of the page
    cacheRef,       \* the object NoteManager.notes holds for the note
    curRef,         \* NoteOrganizerApp.currentNote (0: null)
    nextRef,        \* the next object to be allocated
    edSaving,       \* NoteManager.saveInProgress
    edPending,      \* who awaits the save in progress ("none": no save)
    edPc,           \* where saveCurrentNote is suspended
    edRet,          \* how the promise that settled in this step settled
    edOps,          \* number of editor events so far
    qNotes,         \* the values of NoteManager.notes in insertion order
    qNextId,        \* the identifier of the next note created
    quickFilter,    \* NoteManager.quickFilter
    folderFilter,   \* NoteManager.folderFilter
    tagFilter,      \* NoteManager.tagFilter (<<>>: null)
    searchQuery,    \* NoteManager.searchQuery
    sortBy,         \* NoteManager.sortBy
    qResult,        \* what getFilteredNotes returned in this step
    smQuery,        \* SearchManager.query
    smFilters,      \* SearchManager.filters
    searchHistory,  \* SearchManager.searchHistory
    localHistory,   \* localStorage item 'searchHistory'
    smLast,         \* the last call other than search, and its query argument
    smRet,          \* what search returned in this step
    smOps,          \* calls made so far
    gNotes,         \* keys of NoteManager.notes, each with the number of its entity
    gFolders,       \* keys of NoteManager.folders, each with the number of its entity
    gIssued,        \* every identifier generateId has returned
    gNow,           \* Date.now()
    gLast,          \* the last call: the identifier generated, whether it was known
    gOps,           \* calls made so far
    operationQueue, \* StorageManager.operationQueue: the operations waiting
    isProcessingQueue, \* StorageManager.isProcessingQueue
    opKind,         \* what each submitted operation does when it is called
    opRunning,      \* the operations called and not settled yet
    opPromise,      \* the promise _queueOperation returned for each operation
    opStarted,      \* the operations in the order in which they were called
    opLast,         \* the last call or event
    opNext          \* number of the next operation to be submitted

repoVars == <<notes, noteOrder, folders, saveInProgress, loadInProgress,
              dbNotes, dbFolders, txQueue, nextNoteId, nextFolderId, ops,
              failures, ret, lastSave, deletedOk, deleteRaced, deletedFolders,
              folderDelSaving>>
tagVars == <<tagsIn, tagsOut, tagsDone>>
valVars == <<valIn, valStore, valLenient, valStrict, valAgain, valCache, valStep>>
fieldVars == <<now, cur, born, fieldOps, lastOp>>
syncVars == <<swPc, swUnsynced, swIdx, syncedCount, failedCount, swLog,
              swResult, cycles, pushing>>
openVars == <<dbConn, initPromise, connectionAttempts, openPc, waited, timerDue,
              opened, initCalls, idbAvailable>>
connVars == <<lastStoreOp, storeOps, lostAt>>
bulkVars == <<bulkData, bulkPromise, bulkPc, bulkQueue, completed, bulkTent,
              bulkBefore, bulkFailed, bulkSeen>>
editorVars == <<heap, cacheRef, curRef, nextRef, edSaving, edPending, edPc,
                edRet, edOps>>
queryVars == <<qNotes, qNextId, quickFilter, folderFilter, tagFilter, searchQuery,
               sortBy, qResult>>
searchVars == <<smQuery, smFilters, searchHistory, localHistory, smLast, smRet,
                smOps>>
idVars == <<gNotes, gFolders, gIssued, gNow, gLast, gOps>>
queueVars == <<operationQueue, isProcessingQueue, opKind, opRunning, opPromise,
               opStarted, opLast, opNext>>
extVars == <<bulkVars, editorVars, queryVars, searchVars,
             idVars, queueVars>>
auxVars == <<tagVars, valVars, fieldVars, syncVars, openVars, connVars, extVars>>
vars == <<notes, noteOrder, folders, saveInProgress, loadInProgress,
          dbNotes, dbFolders, txQueue, nextNoteId, nextFolderId, ops,
          failures, ret, lastSave, deletedOk, deleteRaced, deletedFolders,
          folderDelSaving, tagsIn, tagsOut, tagsDone,
          valIn, valStore, valLenient, valStrict, valAgain, valCache, valStep,
          now, cur, born, fieldOps, lastOp,
          swPc, swUnsynced, swIdx, syncedCount, failedCount, swLog,
          swResult, cycles, pushing,
          dbConn, initPromise, connectionAttempts, openPc, waited, timerDue,
          opened, initCalls, idbAvailable, lastStoreOp, storeOps,
          lostAt,
          bulkData, bulkPromise, bulkPc, bulkQueue, completed, bulkTent,
          bulkBefore, bulkFailed, bulkSeen,
          heap, cacheRef, curRef, nextRef, edSaving, edPending, edPc, edRet,
          edOps,
          qNotes, qNextId, quickFilter, folderFilter, tagFilter, searchQuery,
          sortBy, qResult,
          smQuery, smFilters, searchHistory, localHistory, smLast, smRet,
          smOps,
          gNotes, gFolders, gIssued, gNow, gLast, gOps,
          operationQueue, isProcessingQueue, opKind, opRunning, opPromise,
          opStarted, opLast, opNext>>

\* ------------------------------------------------------------- helpers
Has(m, id) == id \in DOMAIN m /\ m[id].present

NoRet == [op |-> "none", id |-> 0, ok |-> "none", val |-> Absent, members |-> {}]
Ret(op, id, ok, val, members) ==
    [op |-> op, id |-> id, ok |-> ok, val |-> val, members |-> members]
NoSave == [done |-> FALSE, notes |-> NoNotes, folders |-> NoFolders]

RemoveId(seq, id) == SelectSeq(seq, LAMBDA x : x # id)

\* ---------------------------------------------------------- validation
\* (variant: the existence check is left out)
validateFolderIdUnchecked(fs, folderId) == folderId

\* validateFolderId: null unless the folder is in the live folder map
validateFolderId(fs, folderId) ==
    IF folderId = Null THEN Null
    ELSE IF Has(fs, folderId) THEN folderId
    ELSE Null

\* validateNote on a note object that has a string id: field-wise copy
validateNote(fs, note) ==
    Note(note.title, validateFolderId(fs, note.folderId), note.isFavorite)

\* validateFolder(folder, false): null (Absent) when the name is empty
validateFolder(folder) ==
    IF folder.name = 0 THEN Absent ELSE Folder(folder.name)

\* the data object built by NoteManager.saveNotes
SnapshotNotes(ns, fs) ==
    [i \in NoteIds |-> IF ns[i].present THEN validateNote(fs, ns[i]) ELSE Absent]
SnapshotFolders(fs) ==
    [i \in FolderIds |-> IF fs[i].present THEN validateFolder(fs[i]) ELSE Absent]

\* ------------------------------------------------------- transactions
\* Every StorageManager call creates its IndexedDB transaction synchronously.
\* The scopes of saveNotes, loadNotes and deleteNote all contain the notes
\* store, so IndexedDB runs them one after the other in creation order:
\* txQueue is that order, its head the transaction being run.
\* a transaction of StorageManager.saveNotes(data); cont/id name the caller
\* awaiting it and val is the note that caller validated (updateNote)
SaveTx(ns, fs, cont, id) ==
    [kind |-> "save", id |-> id, cont |-> cont,
     val |-> IF cont = "updateNote" THEN ns[id] ELSE Absent,
     notes |-> SnapshotNotes(ns, fs), folders |-> SnapshotFolders(fs)]
DeleteTx(id) ==
    [kind |-> "delete", id |-> id, cont |-> "deleteNote", val |-> Absent,
     notes |-> NoNotes, folders |-> NoFolders]
LoadTx ==
    [kind |-> "load", id |-> 0, cont |-> "loadNotes", val |-> Absent,
     notes |-> NoNotes, folders |-> NoFolders]

\* StorageManager.saveNotes: put every note and folder of data
PutAll(db, data) == [i \in DOMAIN db |-> IF data[i].present THEN data[i] ELSE db[i]]

\* StorageManager.saveNotes resolves at once when data has nothing to put
EmptyData(ns, fs) ==
    /\ \A i \in NoteIds : ~SnapshotNotes(ns, fs)[i].present
    /\ \A f \in FolderIds : ~SnapshotFolders(fs)[f].present

\* (variant of saveNotes below: no saveInProgress guard)
saveNotesUnguarded(q, sip, ns, fs, cont, id) ==
    IF EmptyData(ns, fs) THEN q ELSE Append(q, SaveTx(ns, fs, cont, id))

\* ------------------------------------------------ NoteManager.saveNotes
\* The synchronous part of saveNotes: dropped when a save is in progress,
\* otherwise the data snapshot is built and its transaction is created
\* (unless there is nothing to put). Returns the transaction queue.
saveNotes(q, sip, ns, fs, cont, id) ==
    IF sip \/ EmptyData(ns, fs) THEN q ELSE Append(q, SaveTx(ns, fs, cont, id))

\* saveNotes returns without a write in flight: it was dropped, or it had
\* nothing to put and its promise resolved in the same task
SaveReturnsAtOnce(sip, ns, fs) == sip \/ EmptyData(ns, fs)

\* saveInProgress once the call and its microtasks have run
FlagAfterSave(sip, ns, fs) == sip \/ ~EmptyData(ns, fs)

\* the save completed in the same task, having put nothing
SavedNothing(sip, ns, fs) ==
    IF ~sip /\ EmptyData(ns, fs)
    THEN [done |-> TRUE, notes |-> NoNotes, folders |-> NoFolders]
    ELSE [done |-> FALSE, notes |-> NoNotes, folders |-> NoFolders]

\* ------------------------------------------------ NoteManager.loadNotes
\* the merge of the data read from the store into the cache: notes are
\* validated (against the folder map as it is before the folders of data
\* are added), then folders
LoadedNotes(ns, fs, dN) ==
    [i \in NoteIds |-> IF dN[i].present THEN validateNote(fs, dN[i]) ELSE ns[i]]
LoadedOrder(order, ns, dN) ==
    order \o SelectSeq([i \in 1..MaxNotes |-> i],
                       LAMBDA i : dN[i].present /\ ~ns[i].present)
LoadedFolders(fs, dF) ==
    [i \in FolderIds |->
        IF dF[i].present /\ validateFolder(dF[i]).present
        THEN validateFolder(dF[i]) ELSE fs[i]]

\* ------------------------------------------------------------- Init
RepoInit ==
    /\ notes = NoNotes
    /\ noteOrder = <<>>
    /\ folders = NoFolders
    /\ saveInProgress = FALSE
    /\ loadInProgress = FALSE
    /\ dbNotes = NoNotes
    /\ dbFolders = NoFolders
    /\ txQueue = <<>>
    /\ nextNoteId = 1
    /\ nextFolderId = 1
    /\ ops = 0
    /\ failures = 0
    /\ ret = NoRet
    /\ lastSave = NoSave
    /\ deletedOk = {}
    /\ deleteRaced = {}
    /\ deletedFolders = {}
    /\ folderDelSaving = {}

\* -------------------------------------------------------------- tags
\* A string is a sequence of characters; character 0 is a blank, the others
\* are non-blank. An array element is a string or something else.
Str(cs) == [isString |-> TRUE, chars |-> cs]
NonString == [isString |-> FALSE, chars |-> <<>>]

MinOf(S) == CHOOSE x \in S : \A y \in S : x <= y
MaxOf(S) == CHOOSE x \in S : \A y \in S : x >= y

\* String.prototype.trim
trim(cs) ==
    LET nb == {i \in DOMAIN cs : cs[i] # 0}
    IN IF nb = {} THEN <<>> ELSE SubSeq(cs, MinOf(nb), MaxOf(nb))

\* String.prototype.substring(0, n) and Array.prototype.slice(0, n)
substring(cs, n) == SubSeq(cs, 1, IF Len(cs) < n THEN Len(cs) ELSE n)

\* the elements of seq at the indices in keep, in order
RECURSIVE PickFrom(_, _, _)
PickFrom(seq, keep, i) ==
    IF i > Len(seq) THEN <<>>
    ELSE (IF i \in keep THEN <<seq[i]>> ELSE <<>>) \o PickFrom(seq, keep, i + 1)

\* filter(tag => typeof tag === 'string' && tag.trim().length > 0)
\* followed by map(tag => tag.trim().substring(0, maxTagLength))
CleanTags(items) ==
    LET ok == PickFrom(items,
                       {i \in DOMAIN items :
                           items[i].isString /\ Len(trim(items[i].chars)) > 0}, 1)
    IN [i \in DOMAIN ok |-> substring(trim(ok[i].chars), maxTagLength)]

\* filter((tag, index, arr) => arr.indexOf(tag) === index)
FirstOccurrences(arr) ==
    PickFrom(arr, {i \in DOMAIN arr : \A j \in 1..(i - 1) : arr[j] # arr[i]}, 1)

\* validateTags(tags)
validateTags(tags) ==
    IF ~tags.isArray THEN <<>>
    ELSE FirstOccurrences(substring(CleanTags(tags.items), maxTagsPerNote))

\* -------- inputs of validateTags
LongPrefix == [i \in 1..maxTagLength |-> 7]
DistinctTags(n) == [i \in 1..n |-> Str(<<i>>)]
TagKinds == {"copy", "padded", "nonstring", "empty", "blank", "long"}
SpecialTag(kind, q) ==
    CASE kind = "copy" -> Str(<<q>>)
      [] kind = "padded" -> Str(<<0, q, 0>>)
      [] kind = "nonstring" -> NonString
      [] kind = "empty" -> Str(<<>>)
      [] kind = "blank" -> Str(<<0, 0>>)
      [] OTHER -> Str(LongPrefix \o <<8>>)
\* n distinct one-character tags, the one at position p replaced by a special
\* entry (a copy of the tag at q, a padded copy, a non-string, ...), and
\* optionally the first one replaced by a tag longer than maxTagLength
TagList(n, p, kind, q, lead) ==
    [i \in 1..n |->
        IF i = p THEN SpecialTag(kind, q)
        ELSE IF i = 1 /\ lead THEN Str(LongPrefix \o <<9>>)
        ELSE Str(<<i>>)]
TagInputs ==
    {[isArray |-> FALSE, items |-> <<>>]} \cup
    {[isArray |-> TRUE, items |-> DistinctTags(n)] : n \in 0..MaxTagListLen} \cup
    {[isArray |-> TRUE, items |-> TagList(x[1], x[2], x[3], x[4], x[5])] :
        x \in {y \in (1..MaxTagListLen) \X (1..MaxTagListLen) \X TagKinds
                       \X (1..MaxTagListLen) \X BOOLEAN :
                  /\ y[2] <= y[1]
                  /\ y[4] < y[2]
                  /\ (y[3] \notin {"copy", "padded"} => y[4] = 1)}}

\* ----------------------------------------------- note and folder objects
\* Field values as JavaScript sees them. A positive integer is a number, a
\* time or a string identifier; 0 stands for a field that is missing
\* (undefined, null and 0 are all falsy).
\* the number NaN
NaN == 0 - 1000
\* a string that is neither a number nor a date
Garbage == 0 - 1001
\* the Date object "Invalid Date"
InvalidDate == 0 - 1002
\* an id that is a number, not a string
NumberId == 0 - 1
maxTitleLength == 500

\* v || d
OrElse(v, d) == IF v = 0 \/ v = NaN THEN d ELSE v
\* parseInt(v)
parseInt(v) == IF v = Garbage \/ v = NaN THEN NaN ELSE v
\* Math.max(a, b)
MathMax(a, b) == IF a = NaN \/ b = NaN THEN NaN ELSE IF a >= b THEN a ELSE b
\* v ? new Date(v) : new Date(), the clock showing t
toDate(v, t) ==
    IF v = 0 THEN t
    ELSE IF v = Garbage \/ v = InvalidDate THEN InvalidDate
    ELSE v

\* sanitizeTitle(title)
sanitizeTitle(title) ==
    IF ~title.isString THEN <<>>
    ELSE substring(trim(title.chars), maxTitleLength)

\* an array of strings
TagArray(seq) == [isArray |-> TRUE, items |-> [i \in DOMAIN seq |-> Str(seq[i])]]
NoTags == [isArray |-> TRUE, items |-> <<>>]

NullNote == [kind |-> "null"]
NoteObj(id, title, tags, folderId, fav, createdAt, modifiedAt, version) ==
    [kind |-> "object", id |-> id, title |-> title, tags |-> tags,
     folderId |-> folderId, isFavorite |-> fav, createdAt |-> createdAt,
     modifiedAt |-> modifiedAt, version |-> version]
FolderObj(id, name, createdAt, modifiedAt) ==
    [kind |-> "object", id |-> id, name |-> name, createdAt |-> createdAt,
     modifiedAt |-> modifiedAt]

\* (variant of validateNoteObj: the error is rethrown whatever throwOnError)
validateNoteObjRethrows(fs, x, strict, t) ==
    IF x.kind # "object" \/ x.id < 1
    THEN [raised |-> TRUE, val |-> NullNote]
    ELSE [raised |-> FALSE,
          val |-> NoteObj(x.id,
                          Str(sanitizeTitle(x.title)),
                          TagArray(validateTags(x.tags)),
                          validateFolderId(fs, x.folderId),
                          x.isFavorite,
                          toDate(x.createdAt, t),
                          toDate(x.modifiedAt, t),
                          MathMax(1, parseInt(OrElse(x.version, 1))))]

\* validateNote(note, throwOnError) with every field it builds, the clock
\* showing t: raised tells whether it threw, val is what it returned
validateNoteObj(fs, x, strict, t) ==
    IF x.kind # "object" \/ x.id < 1
    THEN [raised |-> strict, val |-> NullNote]
    ELSE [raised |-> FALSE,
          val |-> NoteObj(x.id,
                          Str(sanitizeTitle(x.title)),
                          TagArray(validateTags(x.tags)),
                          validateFolderId(fs, x.folderId),
                          x.isFavorite,
                          toDate(x.createdAt, t),
                          toDate(x.modifiedAt, t),
                          MathMax(1, parseInt(OrElse(x.version, 1))))]

\* validateFolder(folder, throwOnError)
validateFolderObj(x, strict, t) ==
    IF \/ x.kind # "object"
       \/ x.id < 1
       \/ ~x.name.isString
       \/ Len(trim(x.name.chars)) = 0
    THEN [raised |-> strict, val |-> NullNote]
    ELSE [raised |-> FALSE,
          val |-> FolderObj(x.id,
                            Str(substring(trim(x.name.chars), maxTitleLength)),
                            toDate(x.createdAt, t),
                            toDate(x.modifiedAt, t))]

\* the forEach of loadNotes over the note records read from the store
RECURSIVE loadRecords(_, _, _, _)
loadRecords(cache, fs, records, t) ==
    IF records = <<>> THEN cache
    ELSE LET v == validateNoteObj(fs, Head(records), FALSE, t).val
         IN loadRecords(IF v = NullNote THEN cache ELSE [cache EXCEPT ![v.id] = v],
                        fs, Tail(records), t)

\* -------- inputs of validateNote / validateFolder
\* a string of n + 1 characters whose n-th character is a blank
LongBlank(n) == [i \in 1..(n + 1) |-> IF i = n THEN 0 ELSE 7]
\* the folder map the objects are validated against
ObjFolders == [i \in FolderIds |-> IF i = 1 THEN Folder(1) ELSE Absent]
TitleInputs ==
    {Str(<<>>), Str(<<0, 1, 0>>), NonString, Str(LongBlank(maxTitleLength))}
TagArrayInputs ==
    {NoTags,
     [isArray |-> FALSE, items |-> <<>>],
     [isArray |-> TRUE, items |-> <<Str(<<1>>), Str(<<0, 1, 0>>), Str(<<2>>)>>],
     [isArray |-> TRUE, items |-> <<Str(LongBlank(maxTagLength))>>],
     [isArray |-> TRUE, items |-> DistinctTags(maxTagsPerNote + 1)]}
DateInputs == {0, 1, MaxTime, Garbage}
VersionInputs == {0, 1, 2, 0 - 2, Garbage}
BaseNote == NoteObj(1, Str(<<1>>), NoTags, Null, FALSE, 1, 1, 1)
NoteInputs ==
    {NoteObj(1, t, tg, Null, FALSE, c, m, v) :
        t \in TitleInputs, tg \in TagArrayInputs, c \in DateInputs,
        m \in DateInputs, v \in VersionInputs} \cup
    {[BaseNote EXCEPT !.folderId = f] : f \in {1, MaxFolders + 1}} \cup
    {[BaseNote EXCEPT !.id = i] : i \in {0, NumberId}} \cup
    {NullNote, [kind |-> "string"]}
FolderInputs ==
    {FolderObj(i, n, c, m) :
        i \in {0, NumberId, 1},
        n \in {Str(<<>>), Str(<<0, 0>>), Str(<<1>>), Str(<<0, 1, 0>>), NonString,
               Str(LongBlank(maxTitleLength))},
        c \in DateInputs, m \in DateInputs} \cup
    {NullNote, [kind |-> "string"]}
ValInputs ==
    {[what |-> "note", x |-> n] : n \in NoteInputs} \cup
    {[what |-> "folder", x |-> f] : f \in FolderInputs} \cup
    {[what |-> "load", x |-> NullNote]}
\* records of the notes object store: objects whose key id is a string or
\* a number
RecordInputs ==
    {[BaseNote EXCEPT !.id = i] : i \in NoteIds \cup {0, NumberId}} \cup
    {NoteObj(1, Str(<<0, 1, 0>>),
             [isArray |-> TRUE, items |-> <<Str(<<1>>), Str(<<0, 1, 0>>), Str(<<2>>)>>],
             1, TRUE, 0, MaxTime, Garbage)}
RECURSIVE SeqsUpTo(_, _)
SeqsUpTo(S, n) ==
    IF n = 0 THEN {<<>>}
    ELSE SeqsUpTo(S, n - 1) \cup
         {Append(s, e) : s \in {q \in SeqsUpTo(S, n - 1) : Len(q) = n - 1}, e \in S}
StoreInputs ==
    {s \in SeqsUpTo(RecordInputs, MaxRecords) :
        \A i, j \in DOMAIN s : i # j => s[i].id # s[j].id}

NoResult == [raised |-> FALSE, val |-> NullNote]
EmptyCache == [i \in NoteIds |-> NullNote]
ValIdle ==
    /\ valIn = [what |-> "load", x |-> NullNote]
    /\ valStore = <<>>
    /\ valLenient = NoResult
    /\ valStrict = NoResult
    /\ valAgain = NoResult
    /\ valCache = EmptyCache
    /\ valStep = 0
FieldsIdle ==
    /\ now = 1
    /\ cur = NullNote
    /\ born = 0
    /\ fieldOps = 0
    /\ lastOp = "none"
SyncIdle ==
    /\ swPc = "idle"
    /\ swUnsynced = <<>>
    /\ swIdx = 0
    /\ syncedCount = 0
    /\ failedCount = 0
    /\ swLog = <<>>
    /\ swResult = "none"
    /\ cycles = 0
    /\ pushing = {}
NoStoreOp == [result |-> "none", calls |-> 0, lost |-> 0]
NoStores == [notes |-> NoNotes, folders |-> NoFolders]
BulkIdle ==
    /\ bulkData = [notes |-> <<>>, folders |-> <<>>]
    /\ bulkPromise = "none"
    /\ bulkPc = "none"
    /\ bulkQueue = <<>>
    /\ completed = 0
    /\ bulkTent = NoStores
    /\ bulkBefore = NoStores
    /\ bulkFailed = FALSE
    /\ bulkSeen = [read |-> FALSE, stores |-> NoStores]
Refs == 1..MaxObjs
EdObj(t, fav, dirty) == [present |-> TRUE, title |-> t, isFavorite |-> fav, isDirty |-> dirty]
NoEdRet == [op |-> "none", ok |-> "none"]

EditorIdle ==
    /\ heap = [r \in Refs |-> IF r = 1 THEN EdObj(0, FALSE, FALSE) ELSE Absent]
    /\ cacheRef = 1
    /\ curRef = 0
    /\ nextRef = 2
    /\ edSaving = FALSE
    /\ edPending = "none"
    /\ edPc = "idle"
    /\ edRet = NoEdRet
    /\ edOps = 0

NoQuery == [called |-> FALSE, notes |-> <<>>]
QueryIdle ==
    /\ qNotes = <<>>
    /\ qNextId = 1
    /\ quickFilter = "all"
    /\ folderFilter = Null
    /\ tagFilter = <<>>
    /\ searchQuery = <<>>
    /\ sortBy = "modified"
    /\ qResult = NoQuery
\* SearchManager after construction, nothing stored by an earlier session
DefaultFilters ==
    [folders |-> {}, tags |-> {}, dateFrom |-> Null, dateTo |-> Null,
     includeContent |-> TRUE, includeTags |-> TRUE, includeTitle |-> TRUE]
NoItem == [present |-> FALSE, value |-> <<>>]
NoSmCall == [op |-> "none", arg |-> <<>>]
NoSmRet == [called |-> FALSE]
SearchIdle ==
    /\ smQuery = <<>>
    /\ smFilters = DefaultFilters
    /\ searchHistory = <<>>
    /\ localHistory = NoItem
    /\ smLast = NoSmCall
    /\ smRet = NoSmRet
    /\ smOps = 0
\* no identifier generated yet
NoIdCall == [op |-> "none", called |-> FALSE, id |-> <<>>, issuedBefore |-> FALSE,
             overwrote |-> FALSE]
IdsIdle ==
    /\ gNotes = <<>>
    /\ gFolders = <<>>
    /\ gIssued = {}
    /\ gNow = 0
    /\ gLast = NoIdCall
    /\ gOps = 0
\* no operation submitted yet
QueueOps == 1..MaxQueueOps
NoPromise == [state |-> "none", of |-> 0]
NoOpCall == [op |-> "none", id |-> 0, waiting |-> <<>>]
QueueIdle ==
    /\ operationQueue = <<>>
    /\ isProcessingQueue = FALSE
    /\ opKind = [i \in QueueOps |-> "none"]
    /\ opRunning = {}
    /\ opPromise = [i \in QueueOps |-> NoPromise]
    /\ opStarted = <<>>
    /\ opLast = NoOpCall
    /\ opNext = 1
ExtIdle == BulkIdle /\ EditorIdle /\ QueryIdle /\ SearchIdle /\ IdsIdle /\ QueueIdle
ConnIdle ==
    /\ lastStoreOp = NoStoreOp
    /\ storeOps = 0
    /\ lostAt = 0
OpenIdle ==
    /\ dbConn = Null
    /\ initPromise = "null"
    /\ connectionAttempts = 0
    /\ openPc = "idle"
    /\ waited = <<>>
    /\ timerDue = 0
    /\ opened = 0
    /\ initCalls = 0
    /\ idbAvailable = TRUE
    /\ ConnIdle

TagsIdle ==
    /\ tagsIn = [isArray |-> FALSE, items |-> <<>>]
    /\ tagsOut = <<>>
    /\ tagsDone = FALSE

Init == RepoInit /\ TagsIdle /\ ValIdle /\ FieldsIdle /\ SyncIdle /\ OpenIdle /\ ExtIdle

\* ---------------------------------------------------------- actions
\* (variant of createNote: it awaits the save before it returns)
CreateNoteAwaitsSave(t, f, fav) ==
    /\ ops < MaxOps
    /\ nextNoteId <= MaxNotes
    /\ LET id == nextNoteId
           note == validateNote(folders, Note(t, validateFolderId(folders, f), fav))
           ns == [notes EXCEPT ![id] = note]
       IN /\ notes' = ns
          /\ noteOrder' = Append(noteOrder, id)
          /\ txQueue' = saveNotes(txQueue, saveInProgress, ns, folders, "fire", 0)
          /\ saveInProgress' = FlagAfterSave(saveInProgress, ns, folders)
          /\ lastSave' = SavedNothing(saveInProgress, ns, folders)
          /\ ret' = IF SaveReturnsAtOnce(saveInProgress, ns, folders)
                    THEN Ret("createNote", id, "true", note, {})
                    ELSE NoRet
    /\ nextNoteId' = nextNoteId + 1
    /\ ops' = ops + 1
    /\ UNCHANGED <<folders, loadInProgress, dbNotes, dbFolders, nextFolderId,
                   failures, deletedOk, deleteRaced, deletedFolders,
                   folderDelSaving, auxVars>>

\* createNote(options): synchronous; the save is fire-and-forget
CreateNote(t, f, fav) ==
    /\ ops < MaxOps
    /\ nextNoteId <= MaxNotes
    /\ LET id == nextNoteId
           note == validateNote(folders, Note(t, validateFolderId(folders, f), fav))
           ns == [notes EXCEPT ![id] = note]
       IN /\ notes' = ns
          /\ noteOrder' = Append(noteOrder, id)
          /\ txQueue' = saveNotes(txQueue, saveInProgress, ns, folders, "fire", 0)
          /\ saveInProgress' = FlagAfterSave(saveInProgress, ns, folders)
          /\ lastSave' = SavedNothing(saveInProgress, ns, folders)
          /\ ret' = Ret("createNote", id, "true", note, {})
    /\ nextNoteId' = nextNoteId + 1
    /\ ops' = ops + 1
    /\ UNCHANGED <<folders, loadInProgress, dbNotes, dbFolders, nextFolderId,
                   failures, deletedOk, deleteRaced, deletedFolders,
                   folderDelSaving, auxVars>>

\* updateNote(note), note.id = id: up to the await of saveNotes, and past
\* it when saveNotes returns at once because a save is in progress
UpdateNote(id, t, f, fav) ==
    /\ ops < MaxOps
    /\ ops' = ops + 1
    /\ IF ~Has(notes, id)
       THEN /\ ret' = Ret("updateNote", id, "false", Absent, {})
            /\ lastSave' = NoSave
            /\ UNCHANGED <<notes, txQueue, saveInProgress>>
       ELSE LET v == validateNote(folders, Note(t, f, fav))
                ns == [notes EXCEPT ![id] = v]
            IN /\ notes' = ns
               /\ txQueue' = saveNotes(txQueue, saveInProgress, ns, folders, "updateNote", id)
               /\ saveInProgress' = FlagAfterSave(saveInProgress, ns, folders)
               /\ lastSave' = SavedNothing(saveInProgress, ns, folders)
               /\ ret' = IF SaveReturnsAtOnce(saveInProgress, ns, folders)
                         THEN Ret("updateNote", id, "true", v, {})
                         ELSE NoRet
    /\ UNCHANGED <<noteOrder, folders, loadInProgress, dbNotes, dbFolders,
                   nextNoteId, nextFolderId, failures, deletedOk, deleteRaced,
                   deletedFolders,
                   folderDelSaving, auxVars>>

\* (variant of DeleteNote below: the re-save of the remaining notes is started
\* together with the store delete)
DeleteNoteSavesAtOnce(id) ==
    /\ ops < MaxOps
    /\ ops' = ops + 1
    /\ lastSave' = NoSave
    /\ IF ~Has(notes, id)
       THEN /\ ret' = Ret("deleteNote", id, "false", Absent, {})
            /\ UNCHANGED <<notes, noteOrder, txQueue, deleteRaced>>
       ELSE /\ notes' = [notes EXCEPT ![id] = Absent]
            /\ noteOrder' = RemoveId(noteOrder, id)
            /\ txQueue' = Append(Append(txQueue, DeleteTx(id)),
                                 SaveTx(notes', folders, "deleteNote", id))
            /\ deleteRaced' = IF loadInProgress THEN deleteRaced \cup {id} ELSE deleteRaced
            /\ ret' = NoRet
    /\ UNCHANGED <<folders, saveInProgress, loadInProgress, dbNotes, dbFolders,
                   nextNoteId, nextFolderId, failures, deletedOk, deletedFolders,
                   folderDelSaving, auxVars>>

\* deleteNote(id): removal from the cache and creation of the store delete
DeleteNote(id) ==
    /\ ops < MaxOps
    /\ ops' = ops + 1
    /\ lastSave' = NoSave
    /\ IF ~Has(notes, id)
       THEN /\ ret' = Ret("deleteNote", id, "false", Absent, {})
            /\ UNCHANGED <<notes, noteOrder, txQueue, deleteRaced>>
       ELSE /\ notes' = [notes EXCEPT ![id] = Absent]
            /\ noteOrder' = RemoveId(noteOrder, id)
            /\ txQueue' = Append(txQueue, DeleteTx(id))
            /\ deleteRaced' = IF loadInProgress THEN deleteRaced \cup {id} ELSE deleteRaced
            /\ ret' = NoRet
    /\ UNCHANGED <<folders, saveInProgress, loadInProgress, dbNotes, dbFolders,
                   nextNoteId, nextFolderId, failures, deletedOk, deletedFolders,
                   folderDelSaving, auxVars>>

\* toggleFavorite(id)
ToggleFavorite(id) ==
    /\ ops < MaxOps
    /\ ops' = ops + 1
    /\ IF ~Has(notes, id)
       THEN /\ ret' = Ret("toggleFavorite", id, "false", Absent, {})
            /\ lastSave' = NoSave
            /\ UNCHANGED <<notes, txQueue, saveInProgress>>
       ELSE LET ns == [notes EXCEPT ![id].isFavorite = ~notes[id].isFavorite]
            IN /\ notes' = ns
               /\ txQueue' = saveNotes(txQueue, saveInProgress, ns, folders, "fire", 0)
               /\ saveInProgress' = FlagAfterSave(saveInProgress, ns, folders)
               /\ lastSave' = SavedNothing(saveInProgress, ns, folders)
               /\ ret' = Ret("toggleFavorite", id, "true", ns[id], {})
    /\ UNCHANGED <<noteOrder, folders, loadInProgress, dbNotes, dbFolders,
                   nextNoteId, nextFolderId, failures, deletedOk, deleteRaced,
                   deletedFolders,
                   folderDelSaving, auxVars>>

\* createFolder(name): stored in the cache without validation
CreateFolder(name) ==
    /\ ops < MaxOps
    /\ nextFolderId <= MaxFolders
    /\ LET id == nextFolderId
           fs == [folders EXCEPT ![id] = Folder(name)]
       IN /\ folders' = fs
          /\ txQueue' = saveNotes(txQueue, saveInProgress, notes, fs, "fire", 0)
          /\ saveInProgress' = FlagAfterSave(saveInProgress, notes, fs)
          /\ lastSave' = SavedNothing(saveInProgress, notes, fs)
          /\ ret' = Ret("createFolder", id, "true", Absent, {})
    /\ nextFolderId' = nextFolderId + 1
    /\ ops' = ops + 1
    /\ UNCHANGED <<notes, noteOrder, loadInProgress, dbNotes, dbFolders,
                   nextNoteId, failures, deletedOk, deleteRaced, deletedFolders,
                   folderDelSaving, auxVars>>

\* (variant of the loop below: the member notes are deleted with the folder)
DetachLoopCascade(st, fs, ms) ==
    [st EXCEPT !.notes = [i \in NoteIds |->
                             IF \E k \in DOMAIN ms : ms[k] = i
                             THEN Absent ELSE st.notes[i]]]

\* the forEach loop of deleteFolder over the member notes ms (in the
\* insertion order of the cache): note.folderId = null; updateNote(note).
\* Each updateNote validates and replaces the cached note and calls
\* saveNotes; st carries the cache, the queue and saveInProgress.
RECURSIVE DetachLoop(_, _, _)
DetachLoop(st, fs, ms) ==
    IF ms = <<>> THEN st
    ELSE LET m == Head(ms)
             ns == [st.notes EXCEPT
                       ![m] = validateNote(fs, [st.notes[m] EXCEPT !.folderId = Null])]
         IN DetachLoop([notes |-> ns,
                        q |-> saveNotes(st.q, st.sip, ns, fs, "updateNote", m),
                        sip |-> FlagAfterSave(st.sip, ns, fs)],
                       fs, Tail(ms))

\* deleteFolder(id)
DeleteFolder(id) ==
    /\ ops < MaxOps
    /\ ops' = ops + 1
    /\ IF ~Has(folders, id)
       THEN /\ ret' = Ret("deleteFolder", id, "false", Absent, {})
            /\ lastSave' = NoSave
            /\ UNCHANGED <<notes, folders, txQueue, saveInProgress, deletedFolders,
                           folderDelSaving>>
       ELSE LET ms == SelectSeq(noteOrder, LAMBDA n : notes[n].folderId = id)
                st == DetachLoop([notes |-> notes, q |-> txQueue, sip |-> saveInProgress],
                                 folders, ms)
                fs == [folders EXCEPT ![id] = Absent]
            IN /\ notes' = st.notes
               /\ folders' = fs
               /\ txQueue' = saveNotes(st.q, st.sip, st.notes, fs, "fire", 0)
               /\ saveInProgress' = FlagAfterSave(st.sip, st.notes, fs)
               /\ lastSave' = SavedNothing(st.sip, st.notes, fs)
               /\ deletedFolders' = deletedFolders \cup {id}
               /\ folderDelSaving' = IF saveInProgress THEN folderDelSaving
                                     ELSE folderDelSaving \cup {id}
               /\ ret' = Ret("deleteFolder", id, "true", Absent,
                             {ms[k] : k \in DOMAIN ms})
    /\ UNCHANGED <<noteOrder, loadInProgress, dbNotes, dbFolders, nextNoteId,
                   nextFolderId, failures, deletedOk, deleteRaced, auxVars>>

\* (variant of loadNotes below: no loadInProgress guard)
LoadNotesUnguarded ==
    /\ ops < MaxOps
    /\ ops' = ops + 1
    /\ lastSave' = NoSave
    /\ loadInProgress' = TRUE
    /\ txQueue' = Append(txQueue, LoadTx)
    /\ ret' = NoRet
    /\ UNCHANGED <<notes, noteOrder, folders, saveInProgress, dbNotes, dbFolders,
                   nextNoteId, nextFolderId, failures, deletedOk, deleteRaced,
                   deletedFolders,
                   folderDelSaving, auxVars>>

\* loadNotes(): returns at once when a load is in progress, otherwise
\* creates the read transaction
LoadNotes ==
    /\ ops < MaxOps
    /\ ops' = ops + 1
    /\ lastSave' = NoSave
    /\ IF loadInProgress
       THEN /\ ret' = Ret("loadNotes", 0, "skipped", Absent, {})
            /\ UNCHANGED <<txQueue, loadInProgress>>
       ELSE /\ loadInProgress' = TRUE
            /\ txQueue' = Append(txQueue, LoadTx)
            /\ ret' = NoRet
    /\ UNCHANGED <<notes, noteOrder, folders, saveInProgress, dbNotes, dbFolders,
                   nextNoteId, nextFolderId, failures, deletedOk, deleteRaced,
                   deletedFolders,
                   folderDelSaving, auxVars>>

\* ------------------------------------------- store transaction completes
\* (variant of SaveDone: the flag is left set when the save has resolved)
SaveDoneKeepsFlag ==
    /\ txQueue # <<>>
    /\ Head(txQueue).kind = "save"
    /\ LET tx == Head(txQueue)
       IN /\ dbNotes' = PutAll(dbNotes, tx.notes)
          /\ dbFolders' = PutAll(dbFolders, tx.folders)
          /\ lastSave' = [done |-> TRUE, notes |-> tx.notes, folders |-> tx.folders]
          /\ ret' = Ret("saveNotes", 0, "true", Absent, {})
          /\ deletedOk' = IF tx.cont = "deleteNote"
                          THEN deletedOk \cup {tx.id} ELSE deletedOk
    /\ txQueue' = Tail(txQueue)
    /\ UNCHANGED <<notes, noteOrder, folders, saveInProgress, loadInProgress,
                   nextNoteId, nextFolderId, ops, failures, deleteRaced,
                   deletedFolders, folderDelSaving, auxVars>>

\* The oldest transaction succeeds and the function awaiting it resumes.
\* StorageManager.saveNotes resolved: saveNotes clears its flag and returns
SaveDone ==
    /\ txQueue # <<>>
    /\ Head(txQueue).kind = "save"
    /\ LET tx == Head(txQueue)
       IN /\ dbNotes' = PutAll(dbNotes, tx.notes)
          /\ dbFolders' = PutAll(dbFolders, tx.folders)
          /\ lastSave' = [done |-> TRUE, notes |-> tx.notes, folders |-> tx.folders]
          /\ ret' = CASE tx.cont = "updateNote" ->
                            Ret("updateNote", tx.id, "true", tx.val, {})
                      [] tx.cont = "deleteNote" ->
                            Ret("deleteNote", tx.id, "true", Absent, {})
                      [] OTHER -> Ret("saveNotes", 0, "true", Absent, {})
          /\ deletedOk' = IF tx.cont = "deleteNote"
                          THEN deletedOk \cup {tx.id} ELSE deletedOk
    /\ saveInProgress' = FALSE
    /\ txQueue' = Tail(txQueue)
    /\ UNCHANGED <<notes, noteOrder, folders, loadInProgress, nextNoteId,
                   nextFolderId, ops, failures, deleteRaced, deletedFolders,
                   folderDelSaving, auxVars>>

\* (variant of DeleteDone below: the record is not deleted from the store,
\* deleteNote only re-saves the remaining notes)
DeleteDoneKeepsRecord ==
    /\ txQueue # <<>>
    /\ Head(txQueue).kind = "delete"
    /\ LET id == Head(txQueue).id
       IN /\ txQueue' = saveNotes(Tail(txQueue), saveInProgress, notes, folders,
                                  "deleteNote", id)
          /\ ret' = IF SaveReturnsAtOnce(saveInProgress, notes, folders)
                    THEN Ret("deleteNote", id, "true", Absent, {})
                    ELSE NoRet
          /\ deletedOk' = IF SaveReturnsAtOnce(saveInProgress, notes, folders)
                          THEN deletedOk \cup {id} ELSE deletedOk
    /\ saveInProgress' = FlagAfterSave(saveInProgress, notes, folders)
    /\ lastSave' = SavedNothing(saveInProgress, notes, folders)
    /\ UNCHANGED <<notes, noteOrder, folders, loadInProgress, dbNotes, dbFolders,
                   nextNoteId, nextFolderId, ops, failures, deleteRaced,
                   deletedFolders,
                   folderDelSaving, auxVars>>

\* StorageManager.deleteNote resolved: deleteNote goes on with saveNotes()
\* and, when that is dropped, returns true at once
DeleteDone ==
    /\ txQueue # <<>>
    /\ Head(txQueue).kind = "delete"
    /\ LET id == Head(txQueue).id
       IN /\ dbNotes' = [dbNotes EXCEPT ![id] = Absent]
          /\ txQueue' = saveNotes(Tail(txQueue), saveInProgress, notes, folders,
                                  "deleteNote", id)
          /\ ret' = IF SaveReturnsAtOnce(saveInProgress, notes, folders)
                    THEN Ret("deleteNote", id, "true", Absent, {})
                    ELSE NoRet
          /\ deletedOk' = IF SaveReturnsAtOnce(saveInProgress, notes, folders)
                          THEN deletedOk \cup {id} ELSE deletedOk
    /\ saveInProgress' = FlagAfterSave(saveInProgress, notes, folders)
    /\ lastSave' = SavedNothing(saveInProgress, notes, folders)
    /\ UNCHANGED <<notes, noteOrder, folders, loadInProgress, dbFolders,
                   nextNoteId, nextFolderId, ops, failures, deleteRaced,
                   deletedFolders,
                   folderDelSaving, auxVars>>

\* StorageManager.loadNotes resolved: loadNotes fills the cache
LoadDone ==
    /\ txQueue # <<>>
    /\ Head(txQueue).kind = "load"
    /\ notes' = LoadedNotes(notes, folders, dbNotes)
    /\ noteOrder' = LoadedOrder(noteOrder, notes, dbNotes)
    /\ folders' = LoadedFolders(folders, dbFolders)
    /\ loadInProgress' = FALSE
    /\ txQueue' = Tail(txQueue)
    /\ lastSave' = NoSave
    /\ ret' = Ret("loadNotes", 0, "true", Absent, {})
    /\ UNCHANGED <<saveInProgress, dbNotes, dbFolders, deletedOk, nextNoteId,
                   nextFolderId, ops, failures, deleteRaced, deletedFolders,
                   folderDelSaving, auxVars>>

\* (variant of StoreFail: a failed deleteNote puts the note back in the cache)
StoreFailRestoresNote ==
    /\ txQueue # <<>>
    /\ failures < MaxFailures
    /\ failures' = failures + 1
    /\ LET tx == Head(txQueue)
       IN /\ txQueue' = Tail(txQueue)
          /\ saveInProgress' = IF tx.kind = "save" THEN FALSE ELSE saveInProgress
          /\ loadInProgress' = IF tx.kind = "load" THEN FALSE ELSE loadInProgress
          /\ ret' = CASE tx.cont = "fire" -> Ret("saveNotes", 0, "error", Absent, {})
                      [] tx.cont = "loadNotes" -> Ret("loadNotes", 0, "error", Absent, {})
                      [] OTHER -> Ret(tx.cont, tx.id, "error", tx.val, {})
    /\ lastSave' = NoSave
    /\ notes' = IF Head(txQueue).cont = "deleteNote"
                 THEN [notes EXCEPT ![Head(txQueue).id] = Note(0, Null, FALSE)]
                 ELSE notes
    /\ UNCHANGED <<noteOrder, folders, dbNotes, dbFolders, nextNoteId,
                   nextFolderId, ops, deletedOk, deleteRaced, deletedFolders,
                   folderDelSaving, auxVars>>

\* The oldest transaction fails (request or transaction error): nothing is
\* written, the awaiting function sees a rejection.
StoreFail ==
    /\ txQueue # <<>>
    /\ failures < MaxFailures
    /\ failures' = failures + 1
    /\ LET tx == Head(txQueue)
       IN /\ txQueue' = Tail(txQueue)
          /\ saveInProgress' = IF tx.kind = "save" THEN FALSE ELSE saveInProgress
          /\ loadInProgress' = IF tx.kind = "load" THEN FALSE ELSE loadInProgress
          /\ ret' = CASE tx.cont = "fire" -> Ret("saveNotes", 0, "error", Absent, {})
                      [] tx.cont = "loadNotes" -> Ret("loadNotes", 0, "error", Absent, {})
                      [] OTHER -> Ret(tx.cont, tx.id, "error", tx.val, {})
    /\ lastSave' = NoSave
    /\ UNCHANGED <<notes, noteOrder, folders, dbNotes, dbFolders, nextNoteId,
                   nextFolderId, ops, deletedOk, deleteRaced, deletedFolders,
                   folderDelSaving, auxVars>>

\* ------------------------------------------------------ specification
Next ==
    \* the application creates notes without a title and not as favourites
    \/ \E f \in FolderIds \cup {Null} : CreateNote(0, f, FALSE)
    \* the caller edits title and folder of the note object it got from the
    \* cache (saveCurrentNote) and passes it back
    \/ \E id \in NoteIds, t \in Titles, f \in FolderIds \cup {Null} :
            UpdateNote(id, t, f, IF Has(notes, id) THEN notes[id].isFavorite ELSE FALSE)
    \/ \E id \in NoteIds : DeleteNote(id)
    \/ \E id \in NoteIds : ToggleFavorite(id)
    \/ \E name \in FolderNames : CreateFolder(name)
    \/ \E id \in FolderIds : DeleteFolder(id)
    \/ LoadNotes
    \/ SaveDone
    \/ DeleteDone
    \/ LoadDone
    \/ StoreFail

Spec == Init /\ [][Next]_vars

\* ---------------------------------------- validateTags on its own
TagsInit ==
    /\ RepoInit
    /\ tagsIn \in TagInputs
    /\ tagsOut = <<>>
    /\ tagsDone = FALSE
    /\ ValIdle
    /\ FieldsIdle
    /\ SyncIdle
    /\ OpenIdle /\ ExtIdle

ApplyValidateTags ==
    /\ ~tagsDone
    /\ tagsOut' = validateTags(tagsIn)
    /\ tagsDone' = TRUE
    /\ UNCHANGED <<tagsIn, repoVars, valVars, fieldVars, syncVars, openVars, connVars,
            extVars>>

TagsNext == ApplyValidateTags

SpecTags == TagsInit /\ [][TagsNext]_vars

\* ------------------------- validateNote / validateFolder on their own
ValInit ==
    /\ RepoInit
    /\ TagsIdle
    /\ FieldsIdle
    /\ SyncIdle
    /\ OpenIdle /\ ExtIdle
    /\ valIn \in ValInputs
    /\ valStore \in (IF valIn.what = "load" THEN StoreInputs ELSE {<<>>})
    /\ valLenient = NoResult
    /\ valStrict = NoResult
    /\ valAgain = NoResult
    /\ valCache = EmptyCache
    /\ valStep = 0

Validate(in, strict, t) ==
    IF in.what = "note" THEN validateNoteObj(ObjFolders, in.x, strict, t)
    ELSE validateFolderObj(in.x, strict, t)

\* validate(x, false)
ApplyLenient ==
    /\ valStep = 0
    /\ valIn.what # "load"
    /\ valLenient' = Validate(valIn, FALSE, now)
    /\ valStep' = 1
    /\ UNCHANGED <<valIn, valStore, valStrict, valAgain, valCache,
                   repoVars, tagVars, fieldVars, syncVars, openVars, connVars,
                   extVars>>

\* validate(x, true)
ApplyStrict ==
    /\ valStep = 1
    /\ valStrict' = Validate(valIn, TRUE, now)
    /\ valStep' = 2
    /\ UNCHANGED <<valIn, valStore, valLenient, valAgain, valCache,
                   repoVars, tagVars, fieldVars, syncVars, openVars, connVars,
                   extVars>>

\* the entity returned by validate(x, false) is validated again, later
ApplyAgain ==
    /\ valStep = 2
    /\ valLenient.val # NullNote
    /\ now' = now + 1
    /\ valAgain' = Validate([what |-> valIn.what, x |-> valLenient.val], FALSE, now')
    /\ valStep' = 3
    /\ UNCHANGED <<valIn, valStore, valLenient, valStrict, valCache,
                   repoVars, tagVars, cur, born, fieldOps, lastOp,
                   syncVars, openVars, connVars, extVars>>

\* loadNotes() into an empty cache, the store holding the records valStore;
\* valLenient.raised tells whether a validation threw out of the loop
LoadRecords ==
    /\ valStep = 0
    /\ valIn.what = "load"
    /\ valCache' = loadRecords(EmptyCache, ObjFolders, valStore, now)
    /\ valLenient' =
          [raised |-> \E i \in DOMAIN valStore :
                          validateNoteObj(ObjFolders, valStore[i], FALSE, now).raised,
           val |-> NullNote]
    /\ valStep' = 4
    /\ UNCHANGED <<valIn, valStore, valStrict, valAgain,
                   repoVars, tagVars, fieldVars, syncVars, openVars, connVars,
                   extVars>>

ValNext ==
    \/ ApplyLenient
    \/ ApplyStrict
    \/ ApplyAgain
    \/ LoadRecords

SpecValidate == ValInit /\ [][ValNext]_vars

\* ------------------------------- one note object through the repository
\* The calls of NoteManager on one note, with every field validateNote
\* builds; the saves they start are modelled in Spec.
FieldsInit == RepoInit /\ TagsIdle /\ ValIdle /\ FieldsIdle /\ SyncIdle /\ OpenIdle /\ ExtIdle

\* time passes
Tick ==
    /\ now < MaxTime
    /\ now' = now + 1
    /\ lastOp' = "tick"
    /\ UNCHANGED <<cur, born, fieldOps, repoVars, tagVars, valVars, syncVars, openVars,
                   connVars, extVars>>

\* createNote(options): the fields are sanitized, then validateNote(note, true)
CreateNoteObj(options) ==
    /\ fieldOps < MaxFieldOps
    /\ cur = NullNote
    /\ LET note == NoteObj(1,
                           Str(sanitizeTitle(options.title)),
                           TagArray(validateTags(options.tags)),
                           validateFolderId(ObjFolders, options.folderId),
                           options.isFavorite, now, now, 1)
       IN cur' = validateNoteObj(ObjFolders, note, TRUE, now).val
    /\ born' = cur'.createdAt
    /\ fieldOps' = fieldOps + 1
    /\ lastOp' = "createNote"
    /\ UNCHANGED <<now, repoVars, tagVars, valVars, syncVars, openVars, connVars,
            extVars>>

\* updateNote(note) up to its await: validateNote(note, true), modifiedAt
\* set from the clock showing t, the result replaces the cached object
updateNoteObj(note, t) ==
    [validateNoteObj(ObjFolders, note, TRUE, t).val EXCEPT !.modifiedAt = t]

\* updateNote(note), note.id being the id of the cached note
UpdateNoteObj(note) ==
    /\ fieldOps < MaxFieldOps
    /\ cur # NullNote
    /\ cur' = updateNoteObj(note, now)
    /\ fieldOps' = fieldOps + 1
    /\ lastOp' = "updateNote"
    /\ UNCHANGED <<now, born, repoVars, tagVars, valVars, syncVars, openVars,
                   connVars, extVars>>

\* toggleFavorite(id): the cached object is changed in place
ToggleFavoriteObj ==
    /\ fieldOps < MaxFieldOps
    /\ cur # NullNote
    /\ cur' = [cur EXCEPT !.isFavorite = ~cur.isFavorite, !.modifiedAt = now]
    /\ fieldOps' = fieldOps + 1
    /\ lastOp' = "toggleFavorite"
    /\ UNCHANGED <<now, born, repoVars, tagVars, valVars, syncVars, openVars,
                   connVars, extVars>>

\* addTagToNote(id, tag)
AddTagToNote(tag) ==
    /\ fieldOps < MaxFieldOps
    /\ cur # NullNote
    /\ cur' = IF \E i \in DOMAIN cur.tags.items : cur.tags.items[i] = tag
              THEN cur
              ELSE updateNoteObj([cur EXCEPT !.tags.items = Append(@, tag)], now)
    /\ fieldOps' = fieldOps + 1
    /\ lastOp' = "addTagToNote"
    /\ UNCHANGED <<now, born, repoVars, tagVars, valVars, syncVars, openVars,
                   connVars, extVars>>

\* removeTagFromNote(id, tag): splice(indexOf(tag), 1)
RemoveTagFromNote(tag) ==
    /\ fieldOps < MaxFieldOps
    /\ cur # NullNote
    /\ LET at == {i \in DOMAIN cur.tags.items : cur.tags.items[i] = tag}
       IN cur' = IF at = {} THEN cur
                 ELSE updateNoteObj(
                         [cur EXCEPT !.tags.items =
                             PickFrom(@, DOMAIN @ \ {MinOf(at)}, 1)], now)
    /\ fieldOps' = fieldOps + 1
    /\ lastOp' = "removeTagFromNote"
    /\ UNCHANGED <<now, born, repoVars, tagVars, valVars, syncVars, openVars,
                   connVars, extVars>>

\* loadNotes(), the store holding one record with the id of the note
LoadNoteObj(record) ==
    /\ fieldOps < MaxFieldOps
    /\ LET v == validateNoteObj(ObjFolders, record, FALSE, now).val
       IN /\ cur' = IF v = NullNote THEN cur ELSE v
          /\ born' = IF v = NullNote THEN born ELSE 0
    /\ fieldOps' = fieldOps + 1
    /\ lastOp' = "loadNotes"
    /\ UNCHANGED <<now, repoVars, tagVars, valVars, syncVars, openVars, connVars,
            extVars>>

\* -------- inputs of the calls
OptionInputs ==
    {[title |-> Str(<<1>>), tags |-> tg, folderId |-> Null, isFavorite |-> FALSE] :
        tg \in TagArrayInputs}
\* the cached object with one of its fields edited by the caller
Edits ==
    {[kind |-> "same", tags |-> NoTags, createdAt |-> 0, version |-> 0]} \cup
    {[kind |-> "tags", tags |-> tg, createdAt |-> 0, version |-> 0] :
        tg \in TagArrayInputs} \cup
    {[kind |-> "createdAt", tags |-> NoTags, createdAt |-> c, version |-> 0] :
        c \in DateInputs} \cup
    {[kind |-> "version", tags |-> NoTags, createdAt |-> 0, version |-> v] :
        v \in VersionInputs}
EditedNote(note, e) ==
    CASE e.kind = "tags" -> [note EXCEPT !.tags = e.tags]
      [] e.kind = "createdAt" -> [note EXCEPT !.createdAt = e.createdAt]
      [] e.kind = "version" -> [note EXCEPT !.version = e.version]
      [] OTHER -> note
AddTagInputs == {Str(<<1>>), Str(<<0, 1>>), Str(LongBlank(maxTagLength)), NonString}
StoredNoteInputs ==
    {r \in RecordInputs : r.id = 1} \cup
    {NoteObj(1, Str(<<1>>), NoTags, Null, FALSE, c, m, v) :
        c \in DateInputs, m \in DateInputs, v \in {1, 2}}

FieldsNext ==
    \/ Tick
    \/ \E options \in OptionInputs : CreateNoteObj(options)
    \/ \E e \in Edits : UpdateNoteObj(EditedNote(cur, e))
    \/ ToggleFavoriteObj
    \/ \E tag \in AddTagInputs : AddTagToNote(tag)
    \/ \E tag \in {Str(<<1>>), Str(<<2>>)} : RemoveTagFromNote(tag)
    \/ \E record \in StoredNoteInputs : LoadNoteObj(record)

SpecFields == FieldsInit /\ [][FieldsNext]_vars

\* ------------------------------------------ the service worker's sync
\* syncNotes() of the service worker runs against the same object store as
\* the page; its transactions take their place in txQueue. The platform
\* delivers one sync event at a time.
pageVars == <<notes, noteOrder, folders, saveInProgress, loadInProgress,
              dbFolders, nextNoteId, nextFolderId, ops, failures, deletedOk,
              deleteRaced, deletedFolders, folderDelSaving>>

\* !note.synced
IsSynced(r) == "synced" \in DOMAIN r /\ r.synced
\* note.synced = true
Synced(r) ==
    [f \in DOMAIN r \cup {"synced"} |-> IF f = "synced" THEN TRUE ELSE r[f]]

GetAllTx(c) ==
    [kind |-> "getAll", id |-> c, cont |-> "syncNotes", val |-> Absent,
     notes |-> NoNotes, folders |-> NoFolders]
MarkTx(id) ==
    [kind |-> "mark", id |-> id, cont |-> "syncNotes", val |-> Absent,
     notes |-> NoNotes, folders |-> NoFolders]

\* getUnsyncedNotes: store.getAll() (in key order) filtered by !note.synced
getUnsyncedNotes(store) ==
    SelectSeq([i \in 1..MaxNotes |-> i],
              LAMBDA i : store[i].present /\ ~IsSynced(store[i]))

\* (variant of markNoteAsSynced: the record is put back as it was read)
markNoteUntouched(store, id) == store

\* (variant of markNoteAsSynced: a record that is gone is put again)
markNoteUpsert(store, id) ==
    [store EXCEPT ![id] = Synced(IF store[id].present THEN store[id]
                                 ELSE Note(0, Null, FALSE))]

\* markNoteAsSynced: get the record, set synced, put it back
markNoteAsSynced(store, id) ==
    IF store[id].present THEN [store EXCEPT ![id] = Synced(store[id])] ELSE store

\* (variant of StartPush: the pushes of all remaining notes are started)
StartPushAll(ids, k) == {ids[j] : j \in k..Len(ids)}

\* the notes syncSingleNote is called for when the loop reaches position k
StartPush(ids, k) == {ids[k]}

\* what the cycle logs: per note the outcome of its push and of its mark
\* (rec is the record the mark put), and with id 0 the messages about the
\* cycle as a whole
LogEntry(id, push, mark) == [id |-> id, push |-> push, mark |-> mark, rec |-> Absent]

\* (variant of Caught: the error leaves syncNotes)
Uncaught == "rejected"

\* an error thrown inside syncNotes reaches its outer catch, which logs it
Caught == "resolved"

\* the for loop of syncNotes goes on after the note at swIdx, or ends
LoopStep ==
    IF swIdx = Len(swUnsynced)
    THEN /\ swPc' = "idle"
         /\ swResult' = "resolved"
         /\ pushing' = pushing \ {swUnsynced[swIdx]}
         /\ swIdx' = swIdx
    ELSE /\ swPc' = "push"
         /\ swResult' = swResult
         /\ pushing' = (pushing \ {swUnsynced[swIdx]}) \cup StartPush(swUnsynced, swIdx + 1)
         /\ swIdx' = swIdx + 1

\* a sync event: syncNotes() up to its await of openDatabase()
SyncStart ==
    /\ swPc = "idle"
    /\ cycles < MaxCycles
    /\ cycles' = cycles + 1
    /\ swPc' = "open"
    /\ swResult' = "pending"
    /\ swUnsynced' = <<>>
    /\ swIdx' = 0
    /\ syncedCount' = 0
    /\ failedCount' = 0
    /\ swLog' = <<>>
    /\ pushing' = {}
    /\ ret' = NoRet
    /\ lastSave' = NoSave
    /\ UNCHANGED <<pageVars, dbNotes, txQueue, tagVars, valVars, fieldVars, openVars,
                   connVars, extVars>>

\* a sync event while self.indexedDB is not available: syncNotes returns
SyncUnavailable ==
    /\ swPc = "idle"
    /\ cycles < MaxCycles
    /\ cycles' = cycles + 1
    /\ swResult' = "resolved"
    /\ swUnsynced' = <<>>
    /\ swIdx' = 0
    /\ syncedCount' = 0
    /\ failedCount' = 0
    /\ swLog' = <<LogEntry(0, "IndexedDB not available", "none")>>
    /\ ret' = NoRet
    /\ lastSave' = NoSave
    /\ UNCHANGED <<swPc, pushing, pageVars, dbNotes, txQueue, tagVars, valVars,
                   fieldVars, openVars, connVars, extVars>>

\* openDatabase() resolved: getUnsyncedNotes creates its read transaction
OpenDone ==
    /\ swPc = "open"
    /\ swPc' = "read"
    /\ txQueue' = Append(txQueue, GetAllTx(cycles))
    /\ ret' = NoRet
    /\ lastSave' = NoSave
    /\ UNCHANGED <<swUnsynced, swIdx, syncedCount, failedCount, swLog, swResult,
                   cycles, pushing, pageVars, dbNotes, tagVars, valVars,
                   fieldVars, openVars, connVars, extVars>>

\* openDatabase() rejected (open error, or its 10 s timeout)
OpenFail ==
    /\ swPc = "open"
    /\ swPc' = "idle"
    /\ swResult' = Caught
    /\ swLog' = Append(swLog, LogEntry(0, "Note sync failed", "open"))
    /\ ret' = NoRet
    /\ lastSave' = NoSave
    /\ UNCHANGED <<swUnsynced, swIdx, syncedCount, failedCount, cycles,
                   pushing, pageVars, dbNotes, txQueue, tagVars, valVars,
                   fieldVars, openVars, connVars, extVars>>

\* the read transaction of this cycle completed: the loop starts, or
\* syncNotes returns when nothing is unsynced
ReadDone ==
    /\ swPc = "read"
    /\ txQueue # <<>>
    /\ Head(txQueue).kind = "getAll"
    /\ Head(txQueue).id = cycles
    /\ txQueue' = Tail(txQueue)
    /\ LET found == getUnsyncedNotes(dbNotes)
       IN /\ swUnsynced' = found
          /\ IF found = <<>>
             THEN /\ swPc' = "idle"
                  /\ swResult' = "resolved"
                  /\ swIdx' = 0
                  /\ pushing' = {}
             ELSE /\ swPc' = "push"
                  /\ swResult' = swResult
                  /\ swIdx' = 1
                  /\ pushing' = StartPush(found, 1)
    /\ ret' = NoRet
    /\ lastSave' = NoSave
    /\ UNCHANGED <<syncedCount, failedCount, swLog, cycles, pageVars, dbNotes,
                   tagVars, valVars, fieldVars, openVars, connVars, extVars>>

\* getUnsyncedNotes rejected: request or transaction error
ReadFail ==
    /\ swPc = "read"
    /\ txQueue # <<>>
    /\ Head(txQueue).kind = "getAll"
    /\ Head(txQueue).id = cycles
    /\ txQueue' = Tail(txQueue)
    /\ swPc' = "idle"
    /\ swResult' = Caught
    /\ swLog' = Append(swLog, LogEntry(0, "Note sync failed", "read error"))
    /\ ret' = NoRet
    /\ lastSave' = NoSave
    /\ UNCHANGED <<swUnsynced, swIdx, syncedCount, failedCount, cycles,
                   pushing, pageVars, dbNotes, tagVars, valVars, fieldVars,
                   openVars, connVars, extVars>>

\* getUnsyncedNotes rejected by its 5 s timeout: the read transaction stays
ReadTimeout ==
    /\ swPc = "read"
    /\ swPc' = "idle"
    /\ swResult' = Caught
    /\ swLog' = Append(swLog, LogEntry(0, "Note sync failed", "read timeout"))
    /\ ret' = NoRet
    /\ lastSave' = NoSave
    /\ UNCHANGED <<swUnsynced, swIdx, syncedCount, failedCount, cycles,
                   pushing, pageVars, dbNotes, txQueue, tagVars, valVars,
                   fieldVars, openVars, connVars, extVars>>

\* a read transaction whose promise has timed out completes: no effect
StaleReadDone ==
    /\ txQueue # <<>>
    /\ Head(txQueue).kind = "getAll"
    /\ (swPc # "read" \/ Head(txQueue).id # cycles)
    /\ txQueue' = Tail(txQueue)
    /\ ret' = NoRet
    /\ lastSave' = NoSave
    /\ UNCHANGED <<syncVars, pageVars, dbNotes, tagVars, valVars, fieldVars,
                   openVars, connVars, extVars>>

\* syncSingleNote resolved: markNoteAsSynced creates its transaction
PushDone ==
    /\ swPc = "push"
    /\ swPc' = "mark"
    /\ txQueue' = Append(txQueue, MarkTx(swUnsynced[swIdx]))
    /\ pushing' = pushing \ {swUnsynced[swIdx]}
    /\ swLog' = Append(swLog, LogEntry(swUnsynced[swIdx], "ok", "none"))
    /\ ret' = NoRet
    /\ lastSave' = NoSave
    /\ UNCHANGED <<swUnsynced, swIdx, syncedCount, failedCount, swResult, cycles,
                   pageVars, dbNotes, tagVars, valVars, fieldVars, openVars,
                   connVars, extVars>>

\* syncSingleNote rejected: the note is counted as failed, the loop goes on
PushFail ==
    /\ swPc = "push"
    /\ failedCount' = failedCount + 1
    /\ swLog' = Append(swLog, LogEntry(swUnsynced[swIdx], "failed", "none"))
    /\ LoopStep
    /\ ret' = NoRet
    /\ lastSave' = NoSave
    /\ UNCHANGED <<swUnsynced, syncedCount, cycles, pageVars, dbNotes, txQueue,
                   tagVars, valVars, fieldVars, openVars, connVars, extVars>>

\* the transaction of markNoteAsSynced put the record (or found none)
MarkDone ==
    /\ swPc = "mark"
    /\ txQueue # <<>>
    /\ Head(txQueue).kind = "mark"
    /\ txQueue' = Tail(txQueue)
    /\ dbNotes' = markNoteAsSynced(dbNotes, Head(txQueue).id)
    /\ syncedCount' = syncedCount + 1
    /\ swLog' = [swLog EXCEPT
                    ![Len(swLog)].mark =
                        IF dbNotes[Head(txQueue).id].present THEN "ok" ELSE "gone",
                    ![Len(swLog)].rec = dbNotes'[Head(txQueue).id]]
    /\ LoopStep
    /\ ret' = NoRet
    /\ lastSave' = NoSave
    /\ UNCHANGED <<swUnsynced, failedCount, cycles, pageVars, tagVars, valVars,
                   fieldVars, openVars, connVars, extVars>>

\* markNoteAsSynced rejected (get or put error): nothing is written
MarkFail ==
    /\ swPc = "mark"
    /\ txQueue # <<>>
    /\ Head(txQueue).kind = "mark"
    /\ txQueue' = Tail(txQueue)
    /\ failedCount' = failedCount + 1
    /\ swLog' = [swLog EXCEPT ![Len(swLog)].mark = "failed"]
    /\ LoopStep
    /\ ret' = NoRet
    /\ lastSave' = NoSave
    /\ UNCHANGED <<swUnsynced, syncedCount, cycles, pageVars, dbNotes, tagVars,
                   valVars, fieldVars, openVars, connVars, extVars>>

\* the stores a cycle can find: notes 1..k, each synced or not
SyncStores ==
    {st \in [NoteIds -> {Absent, Note(0, Null, FALSE), Synced(Note(0, Null, FALSE))}] :
        \A i, j \in NoteIds : (st[i].present /\ j < i) => st[j].present}

\* the page has loaded the store (NoteManager.loadNotes) before the sync
SyncInit ==
    /\ dbNotes \in SyncStores
    /\ notes = LoadedNotes(NoNotes, NoFolders, dbNotes)
    /\ noteOrder = SelectSeq([i \in 1..MaxNotes |-> i], LAMBDA i : dbNotes[i].present)
    /\ nextNoteId = Len(noteOrder) + 1
    /\ folders = NoFolders
    /\ saveInProgress = FALSE
    /\ loadInProgress = FALSE
    /\ dbFolders = NoFolders
    /\ txQueue = <<>>
    /\ nextFolderId = 1
    /\ ops = 0
    /\ failures = 0
    /\ ret = NoRet
    /\ lastSave = NoSave
    /\ deletedOk = {}
    /\ deleteRaced = {}
    /\ deletedFolders = {}
    /\ folderDelSaving = {}
    /\ TagsIdle /\ ValIdle /\ FieldsIdle /\ SyncIdle /\ OpenIdle /\ ExtIdle

\* meanwhile the page works on its notes
PageCreateNote == ops < MaxPageOps /\ CreateNote(0, Null, FALSE)
PageToggleFavorite(id) == ops < MaxPageOps /\ ToggleFavorite(id)
PageDeleteNote(id) == ops < MaxPageOps /\ DeleteNote(id)

SyncNext ==
    \/ SyncStart
    \/ SyncUnavailable
    \/ OpenDone
    \/ OpenFail
    \/ ReadDone
    \/ ReadFail
    \/ ReadTimeout
    \/ StaleReadDone
    \/ PushDone
    \/ PushFail
    \/ MarkDone
    \/ MarkFail
    \/ PageCreateNote
    \/ \E id \in NoteIds : PageToggleFavorite(id)
    \/ \E id \in NoteIds : PageDeleteNote(id)
    \/ SaveDone
    \/ DeleteDone

SpecSync == SyncInit /\ [][SyncNext]_vars

\* Sync events without end: the platform fires a sync event whenever one is
\* registered and the worker is idle; the numbers of the cycles wrap around.
SyncEvent ==
    /\ swPc = "idle"
    /\ cycles' = IF cycles < MaxCycles THEN cycles + 1 ELSE 1
    /\ swPc' = "open"
    /\ swResult' = "pending"
    /\ swUnsynced' = <<>>
    /\ swIdx' = 0
    /\ syncedCount' = 0
    /\ failedCount' = 0
    /\ swLog' = <<>>
    /\ pushing' = {}
    /\ ret' = NoRet
    /\ lastSave' = NoSave
    /\ UNCHANGED <<pageVars, dbNotes, txQueue, tagVars, valVars, fieldVars, openVars,
                   connVars, extVars>>

\* the push of note id (syncSingleNote) resolves
PushDoneOf(id) == PushDone /\ swUnsynced[swIdx] = id

\* The store stays available: opens, reads and marks do not fail.
SyncLiveNext ==
    \/ SyncEvent
    \/ OpenDone
    \/ ReadDone
    \/ PushDone
    \/ PushFail
    \/ MarkDone
    \/ PageCreateNote
    \/ \E id \in NoteIds : PageToggleFavorite(id)
    \/ \E id \in NoteIds : PageDeleteNote(id)
    \/ SaveDone
    \/ DeleteDone

\* Sync events keep coming, every promise of the browser settles, every
\* transaction completes in its turn, and the push of a note that is tried
\* again and again does not fail every time.
SyncFairness ==
    /\ WF_vars(SyncEvent)
    /\ WF_vars(OpenDone)
    /\ WF_vars(ReadDone)
    /\ WF_vars(MarkDone)
    /\ WF_vars(SaveDone)
    /\ WF_vars(DeleteDone)
    /\ WF_vars(PushDone \/ PushFail)
    /\ \A id \in NoteIds : SF_vars(PushDoneOf(id))

SpecSyncLive == SyncInit /\ [][SyncLiveNext]_vars /\ SyncFairness

\* ------------------------------------------------- StorageManager.init
\* Delays are in seconds; the retry timer fires when the clock has reached
\* timerDue, or later.
maxConnectionAttempts == 3

OpenInit ==
    /\ RepoInit /\ TagsIdle /\ ValIdle /\ FieldsIdle /\ SyncIdle
    /\ dbConn = Null
    /\ initPromise = "null"
    /\ connectionAttempts = 0
    /\ openPc = "idle"
    /\ waited = <<>>
    /\ timerDue = 0
    /\ opened = 0
    /\ initCalls = 0
    /\ idbAvailable \in BOOLEAN
    /\ ConnIdle /\ ExtIdle

\* init(): returns initPromise when there is one, otherwise starts
\* _initDatabase(), which throws without IndexedDB and else makes the first
\* open attempt
InitCall ==
    /\ initCalls < MaxInitCalls
    /\ initCalls' = initCalls + 1
    /\ IF initPromise # "null"
       THEN UNCHANGED <<initPromise, connectionAttempts, openPc, opened>>
       ELSE IF ~idbAvailable
       THEN /\ initPromise' = "rejected"
            /\ UNCHANGED <<connectionAttempts, openPc, opened>>
       ELSE IF connectionAttempts < maxConnectionAttempts
       THEN /\ initPromise' = "pending"
            /\ connectionAttempts' = connectionAttempts + 1
            /\ opened' = opened + 1
            /\ openPc' = "opening"
       ELSE /\ initPromise' = "resolved"
            /\ UNCHANGED <<connectionAttempts, openPc, opened>>
    /\ UNCHANGED <<dbConn, waited, timerDue, idbAvailable, repoVars, tagVars,
                   valVars, fieldVars, syncVars, connVars, extVars>>

\* _openDatabase() resolved: db is set, the counter reset, init resolves
OpenSucceeds ==
    /\ openPc = "opening"
    /\ dbConn' = 1
    /\ connectionAttempts' = 0
    /\ initPromise' = "resolved"
    /\ openPc' = "idle"
    /\ UNCHANGED <<waited, timerDue, opened, initCalls, idbAvailable, repoVars,
                   tagVars, valVars, fieldVars, syncVars, connVars, extVars>>

\* (variant of OpenFails: the first failure is fatal)
OpenFailsFatal ==
    /\ openPc = "opening"
    /\ initPromise' = "rejected"
    /\ openPc' = "idle"
    /\ UNCHANGED <<waited, timerDue>>
    /\ UNCHANGED <<dbConn, connectionAttempts, opened, initCalls, idbAvailable,
                   repoVars, tagVars, valVars, fieldVars, syncVars, connVars,
                   extVars>>

\* _openDatabase() rejected: fatal at the last attempt, otherwise the retry
\* timer is set to 1000 * connectionAttempts ms
OpenFails ==
    /\ openPc = "opening"
    /\ IF connectionAttempts >= maxConnectionAttempts
       THEN /\ initPromise' = "rejected"
            /\ openPc' = "idle"
            /\ UNCHANGED <<waited, timerDue>>
       ELSE /\ openPc' = "waiting"
            /\ timerDue' = now + connectionAttempts
            /\ waited' = Append(waited, connectionAttempts)
            /\ UNCHANGED initPromise
    /\ UNCHANGED <<dbConn, connectionAttempts, opened, initCalls, idbAvailable,
                   repoVars, tagVars, valVars, fieldVars, syncVars, connVars,
                   extVars>>

\* the retry timer fires: the while loop makes the next attempt
TimerFires ==
    /\ openPc = "waiting"
    /\ now >= timerDue
    /\ IF connectionAttempts < maxConnectionAttempts
       THEN /\ connectionAttempts' = connectionAttempts + 1
            /\ opened' = opened + 1
            /\ openPc' = "opening"
            /\ UNCHANGED initPromise
       ELSE /\ initPromise' = "resolved"
            /\ openPc' = "idle"
            /\ UNCHANGED <<connectionAttempts, opened>>
    /\ UNCHANGED <<dbConn, waited, timerDue, initCalls, idbAvailable, repoVars,
                   tagVars, valVars, fieldVars, syncVars, connVars, extVars>>

\* db.onclose: the connection closed unexpectedly
ConnectionClosed ==
    /\ dbConn # Null
    /\ dbConn' = Null
    /\ lostAt' = initCalls
    /\ UNCHANGED <<initPromise, connectionAttempts, openPc, waited, timerDue,
                   opened, initCalls, idbAvailable, repoVars, tagVars, valVars,
                   fieldVars, syncVars, lastStoreOp, storeOps, extVars>>

\* saveNote(note): rejects with 'Database not initialized' when db is null,
\* otherwise puts the note (the put is taken to succeed)
SaveNote(id) ==
    /\ storeOps < MaxStoreOps
    /\ storeOps' = storeOps + 1
    /\ IF dbConn = Null
       THEN /\ lastStoreOp' = [result |-> "error", calls |-> initCalls, lost |-> lostAt]
            /\ UNCHANGED dbNotes
       ELSE /\ lastStoreOp' = [result |-> "ok", calls |-> initCalls, lost |-> lostAt]
            /\ dbNotes' = [dbNotes EXCEPT ![id] = Note(1, Null, FALSE)]
    /\ UNCHANGED <<notes, noteOrder, folders, saveInProgress, loadInProgress,
                   dbFolders, txQueue, nextNoteId, nextFolderId, ops, failures,
                   ret, lastSave, deletedOk, deleteRaced, deletedFolders,
                   folderDelSaving, tagVars, valVars, fieldVars, syncVars,
                   openVars, lostAt, extVars>>

OpenNext ==
    \/ InitCall
    \/ OpenSucceeds
    \/ OpenFails
    \/ TimerFires
    \/ ConnectionClosed
    \/ \E id \in NoteIds : SaveNote(id)
    \/ Tick

SpecOpen == OpenInit /\ [][OpenNext]_vars

\* --------------------------------------------- StorageManager.saveNotes
\* A put whose record has no value at the key path 'id' (key 0 here) throws
\* out of put(); a request that was issued succeeds or fails later.  A
\* request error that is not prevented aborts the transaction, and a
\* transaction whose requests have all been processed commits, or fails to.
BulkNoteItems ==
    {[store |-> "notes", key |-> k, rec |-> Note(1, Null, FALSE)] : k \in {0} \cup NoteIds}
BulkFolderItems ==
    {[store |-> "folders", key |-> k, rec |-> Folder(1)] : k \in {0} \cup FolderIds}
BulkInputs ==
    [notes : SeqsUpTo(BulkNoteItems, MaxBulk), folders : SeqsUpTo(BulkFolderItems, 1)]
BulkStores ==
    {NoNotes, [i \in NoteIds |-> IF i = 1 THEN Note(0, Null, FALSE) ELSE Absent]}

\* the puts of saveNotes in the order the two forEach loops make them
AllPuts(data) == data.notes \o data.folders
\* total of saveNotes
Total(data) == Len(data.notes) + Len(data.folders)
\* the puts made before one throws
Issued(puts) ==
    LET bad == {i \in DOMAIN puts : puts[i].key = 0}
    IN IF bad = {} THEN puts ELSE SubSeq(puts, 1, MinOf(bad) - 1)
Stores == [notes |-> dbNotes, folders |-> dbFolders]
ApplyPut(st, put) ==
    IF put.store = "notes"
    THEN [st EXCEPT !.notes[put.key] = put.rec]
    ELSE [st EXCEPT !.folders[put.key] = put.rec]

BulkInit ==
    /\ dbNotes \in BulkStores
    /\ dbConn \in {Null, 1}
    /\ notes = NoNotes
    /\ noteOrder = <<>>
    /\ nextNoteId = 1
    /\ folders = NoFolders
    /\ saveInProgress = FALSE
    /\ loadInProgress = FALSE
    /\ dbFolders = NoFolders
    /\ txQueue = <<>>
    /\ nextFolderId = 1
    /\ ops = 0
    /\ failures = 0
    /\ ret = NoRet
    /\ lastSave = NoSave
    /\ deletedOk = {}
    /\ deleteRaced = {}
    /\ deletedFolders = {}
    /\ folderDelSaving = {}
    /\ TagsIdle /\ ValIdle /\ FieldsIdle /\ SyncIdle
    /\ initPromise = "null"
    /\ connectionAttempts = 0
    /\ openPc = "idle"
    /\ waited = <<>>
    /\ timerDue = 0
    /\ opened = 0
    /\ initCalls = 0
    /\ idbAvailable = TRUE
    /\ ConnIdle
    /\ BulkIdle
    /\ EditorIdle
    /\ QueryIdle
    /\ SearchIdle /\ IdsIdle /\ QueueIdle

bulkRepoRest == <<notes, noteOrder, folders, saveInProgress, loadInProgress,
                  txQueue, nextNoteId, nextFolderId, ops, failures, ret,
                  lastSave, deletedOk, deleteRaced, deletedFolders,
                  folderDelSaving>>
bulkOthers == <<bulkRepoRest, tagVars, valVars, fieldVars, syncVars, openVars,
                connVars, editorVars, queryVars, searchVars, idVars, queueVars>>

\* saveNotes(data) up to the return of the promise
BulkSaveNotes(data) ==
    /\ bulkPromise = "none"
    /\ bulkData' = data
    /\ bulkBefore' = Stores
    /\ IF dbConn = Null
       THEN /\ bulkPromise' = "rejected"
            /\ UNCHANGED <<bulkPc, bulkQueue, bulkTent, bulkFailed>>
       ELSE /\ bulkPc' = "active"
            /\ bulkTent' = Stores
            /\ IF Total(data) = 0
               THEN /\ bulkPromise' = "resolved"
                    /\ bulkQueue' = <<>>
                    /\ UNCHANGED bulkFailed
               ELSE /\ bulkQueue' = Issued(AllPuts(data))
                    /\ bulkFailed' = (Issued(AllPuts(data)) # AllPuts(data))
                    /\ bulkPromise' = IF Issued(AllPuts(data)) # AllPuts(data)
                                      THEN "rejected" ELSE "pending"
    /\ UNCHANGED <<completed, bulkSeen, dbNotes, dbFolders, bulkOthers>>

\* request.onsuccess = checkComplete
PutSucceeds ==
    /\ bulkPc = "active"
    /\ bulkQueue # <<>>
    /\ bulkTent' = ApplyPut(bulkTent, Head(bulkQueue))
    /\ bulkQueue' = Tail(bulkQueue)
    /\ completed' = completed + 1
    /\ bulkPromise' = IF completed + 1 = Total(bulkData) /\ bulkPromise = "pending"
                      THEN "resolved" ELSE bulkPromise
    /\ UNCHANGED <<bulkData, bulkPc, bulkBefore, bulkFailed, bulkSeen, dbNotes,
                   dbFolders, bulkOthers>>

\* request.onerror: reject; the error aborts the transaction
PutFails ==
    /\ bulkPc = "active"
    /\ bulkQueue # <<>>
    /\ bulkPromise' = IF bulkPromise = "pending" THEN "rejected" ELSE bulkPromise
    /\ bulkPc' = "aborted"
    /\ bulkQueue' = <<>>
    /\ bulkTent' = bulkBefore
    /\ bulkFailed' = TRUE
    /\ UNCHANGED <<bulkData, completed, bulkBefore, bulkSeen, dbNotes, dbFolders,
                   bulkOthers>>

\* the transaction commits what its requests wrote
TxCommit ==
    /\ bulkPc = "active"
    /\ bulkQueue = <<>>
    /\ bulkPc' = "committed"
    /\ dbNotes' = bulkTent.notes
    /\ dbFolders' = bulkTent.folders
    /\ UNCHANGED <<bulkData, bulkPromise, bulkQueue, completed, bulkTent,
                   bulkBefore, bulkFailed, bulkSeen, bulkOthers>>

\* the commit fails: the transaction aborts after its requests succeeded, when
\* the promise is settled already
TxCommitFails ==
    /\ bulkPc = "active"
    /\ bulkQueue = <<>>
    /\ completed > 0
    /\ bulkPc' = "aborted"
    /\ bulkTent' = bulkBefore
    /\ bulkFailed' = TRUE
    /\ UNCHANGED <<bulkData, bulkPromise, bulkQueue, completed, bulkBefore,
                   bulkSeen, dbNotes, dbFolders, bulkOthers>>

\* a later loadNotes(): reads the stores once the transaction has finished
BulkLoadNotes ==
    /\ bulkPc \in {"committed", "aborted"}
    /\ ~bulkSeen.read
    /\ bulkSeen' = [read |-> TRUE, stores |-> Stores]
    /\ UNCHANGED <<bulkData, bulkPromise, bulkPc, bulkQueue, completed, bulkTent,
                   bulkBefore, bulkFailed, dbNotes, dbFolders, bulkOthers>>

BulkNext ==
    \/ \E data \in BulkInputs : BulkSaveNotes(data)
    \/ PutSucceeds
    \/ PutFails
    \/ TxCommit
    \/ TxCommitFails
    \/ BulkLoadNotes

SpecBulk == BulkInit /\ [][BulkNext]_vars

\* ------------------------------------------- the editor and updateNote
\* One note, in the cache from the start.  Objects live in a heap so that the
\* object the editor holds (currentNote) and the object the cache holds can be
\* the same object or two objects: validateNote returns a new object.
EditorInit ==
    /\ RepoInit /\ TagsIdle /\ ValIdle /\ FieldsIdle /\ SyncIdle /\ OpenIdle
    /\ BulkIdle /\ QueryIdle /\ SearchIdle /\ IdsIdle /\ QueueIdle
    /\ EditorIdle

editorOthers == <<repoVars, tagVars, valVars, fieldVars, syncVars, openVars,
                  connVars, bulkVars, queryVars, searchVars, idVars, queueVars>>

\* openNote(noteId): currentNote is the object the cache holds
EdOpenNote ==
    /\ edOps < MaxEdOps
    /\ edPc = "idle"
    /\ edOps' = edOps + 1
    /\ curRef' = cacheRef
    /\ edRet' = NoEdRet
    /\ UNCHANGED <<heap, cacheRef, nextRef, edSaving, edPending, edPc, editorOthers>>

\* handleTitleChange / handleContentChange
EdHandleTitleChange ==
    /\ edOps < MaxEdOps
    /\ curRef # 0
    /\ edOps' = edOps + 1
    /\ heap' = [heap EXCEPT ![curRef].isDirty = TRUE]
    /\ edRet' = NoEdRet
    /\ UNCHANGED <<cacheRef, curRef, nextRef, edSaving, edPending, edPc, editorOthers>>

\* saveCurrentNote up to the await of updateNote(currentNote), and past it
\* when saveNotes returns at once: the fields are written into currentNote,
\* updateNote puts validateNote(currentNote), a new object, in the cache
EdSaveCurrentNote(t) ==
    /\ edOps < MaxEdOps
    /\ curRef # 0
    /\ edPc = "idle"
    /\ nextRef <= MaxObjs
    /\ edOps' = edOps + 1
    /\ LET edited == [heap[curRef] EXCEPT !.title = t, !.isDirty = FALSE]
       IN heap' = [heap EXCEPT ![curRef] = edited, ![nextRef] = edited]
    /\ cacheRef' = nextRef
    /\ nextRef' = nextRef + 1
    /\ IF edSaving
       THEN /\ edRet' = [op |-> "updateNote", ok |-> "true"]
            /\ UNCHANGED <<edPending, edPc, edSaving>>
       ELSE /\ edSaving' = TRUE
            /\ edPending' = "updateNote"
            /\ edPc' = "awaiting"
            /\ edRet' = NoEdRet
    /\ UNCHANGED <<curRef, editorOthers>>

\* toggleNoteFavorite -> NoteManager.toggleFavorite: flips the flag of the
\* object in the cache and calls saveNotes() without awaiting it
EdToggleFavorite ==
    /\ edOps < MaxEdOps
    /\ edOps' = edOps + 1
    /\ heap' = [heap EXCEPT ![cacheRef].isFavorite = ~heap[cacheRef].isFavorite]
    /\ IF edSaving
       THEN UNCHANGED <<edSaving, edPending>>
       ELSE /\ edSaving' = TRUE
            /\ edPending' = "fire"
    /\ edRet' = NoEdRet
    /\ UNCHANGED <<cacheRef, curRef, nextRef, edPc, editorOthers>>

\* closeNoteEditor without unsaved changes
EdCloseNoteEditor ==
    /\ edOps < MaxEdOps
    /\ curRef # 0
    /\ ~heap[curRef].isDirty
    /\ edPc = "idle"
    /\ edOps' = edOps + 1
    /\ curRef' = 0
    /\ edRet' = NoEdRet
    /\ UNCHANGED <<heap, cacheRef, nextRef, edSaving, edPending, edPc, editorOthers>>

\* the save in progress succeeds
EdSaveDone ==
    /\ edPending # "none"
    /\ edSaving' = FALSE
    /\ edPending' = "none"
    /\ edPc' = "idle"
    /\ edRet' = [op |-> IF edPending = "updateNote" THEN "updateNote" ELSE "saveNotes",
                 ok |-> "true"]
    /\ UNCHANGED <<heap, cacheRef, curRef, nextRef, edOps, editorOthers>>

\* the save in progress fails: updateNote rethrows, and the catch block of
\* saveCurrentNote marks currentNote dirty
EdSaveFail ==
    /\ edPending # "none"
    /\ edSaving' = FALSE
    /\ edPending' = "none"
    /\ edPc' = "idle"
    /\ edRet' = [op |-> IF edPending = "updateNote" THEN "updateNote" ELSE "saveNotes",
                 ok |-> "error"]
    /\ heap' = IF edPending = "updateNote" /\ curRef # 0
               THEN [heap EXCEPT ![curRef].isDirty = TRUE]
               ELSE heap
    /\ UNCHANGED <<cacheRef, curRef, nextRef, edOps, editorOthers>>

EditorNext ==
    \/ EdOpenNote
    \/ EdHandleTitleChange
    \/ \E t \in Titles : EdSaveCurrentNote(t)
    \/ EdToggleFavorite
    \/ EdCloseNoteEditor
    \/ EdSaveDone
    \/ EdSaveFail

SpecEditor == EditorInit /\ [][EditorNext]_vars

\* ------------------------------------------ NoteManager.getFilteredNotes
\* Strings are sequences of characters: 0 is a blank, 1 and 2 are 'a' and
\* 'b', 11 and 12 are 'A' and 'B', 20 stands for a piece of HTML markup.
toLowerCase(cs) == [i \in DOMAIN cs |-> IF cs[i] \in {11, 12} THEN cs[i] - 10 ELSE cs[i]]
\* stripHTML: the text content of the markup
stripHTML(cs) == SelectSeq(cs, LAMBDA c : c # 20)
\* String.prototype.includes
includes(hay, needle) ==
    \E i \in 1..(Len(hay) + 1) :
        /\ i + Len(needle) - 1 <= Len(hay)
        /\ SubSeq(hay, i, i + Len(needle) - 1) = needle
\* Array.prototype.join(' ')
RECURSIVE join(_)
join(strs) ==
    IF strs = <<>> THEN <<>>
    ELSE IF Len(strs) = 1 THEN strs[1]
    ELSE strs[1] \o <<0>> \o join(Tail(strs))

\* comparison of two strings character by character
RECURSIVE Lex(_, _)
Lex(a, b) ==
    IF a = <<>> /\ b = <<>> THEN 0
    ELSE IF a = <<>> THEN 0 - 1
    ELSE IF b = <<>> THEN 1
    ELSE IF a[1] < b[1] THEN 0 - 1
    ELSE IF b[1] < a[1] THEN 1
    ELSE Lex(Tail(a), Tail(b))
\* String.prototype.localeCompare: by letter first, then lower case before
\* upper case
localeCompare(a, b) ==
    LET byLetter == Lex(toLowerCase(a), toLowerCase(b))
    IN IF byLetter # 0 THEN byLetter ELSE Lex(a, b)

QueryNow == 10
Week == 7
QNote(title, content, tags, folderId, fav, shared, createdAt, modifiedAt) ==
    [title |-> title, content |-> content, tags |-> tags, folderId |-> folderId,
     isFavorite |-> fav, isShared |-> shared, createdAt |-> createdAt,
     modifiedAt |-> modifiedAt]
QueryNoteValues ==
    {QNote(<<11, 2>>, <<>>, <<>>, Null, FALSE, FALSE, 1, 9),
     QNote(<<2>>, <<1, 20, 2>>, <<<<1>>>>, 1, TRUE, FALSE, 2, 1),
     QNote(<<>>, <<>>, <<<<1>>, <<2>>>>, 2, FALSE, TRUE, 2, 3),
     QNote(<<2>>, <<>>, <<<<2>>>>, 1, TRUE, TRUE, 3, 1)}
QueryIds == 1..MaxQNotes
\* the folder map: folder 1 is named 'b', folder 2 is named 'a'
getFolderName(folderId) ==
    IF folderId = 1 THEN <<2>> ELSE IF folderId = 2 THEN <<1>> ELSE <<>>
QuickFilters == {"all", "recent", "favorites", "shared"}
SortKeys == {"modified", "created", "title", "folder"}
QueryInputs == {<<0>>, <<11, 0>>, <<1, 0, 2>>, <<1, 2>>}

WithId(id, v) == [id |-> id, v |-> v]

\* the comparison function given to sort
compareNotes(a, b, key) ==
    CASE key = "created" -> b.v.createdAt - a.v.createdAt
      [] key = "title" -> localeCompare(a.v.title, b.v.title)
      [] key = "folder" -> localeCompare(getFolderName(a.v.folderId),
                                         getFolderName(b.v.folderId))
      [] OTHER -> b.v.modifiedAt - a.v.modifiedAt

\* (variant of sortNotes: an element goes before the elements it is equal to)
RECURSIVE sortNotesUnstable(_, _)
sortNotesUnstable(seq, key) ==
    IF seq = <<>> THEN <<>>
    ELSE LET x == seq[Len(seq)]
             rest == sortNotesUnstable(SubSeq(seq, 1, Len(seq) - 1), key)
             before == {i \in DOMAIN rest : compareNotes(rest[i], x, key) < 0}
             k == IF before = {} THEN 0 ELSE MaxOf(before)
         IN SubSeq(rest, 1, k) \o <<x>> \o SubSeq(rest, k + 1, Len(rest))

\* Array.prototype.sort with a consistent comparison function: stable
RECURSIVE sortNotes(_, _)
sortNotes(seq, key) ==
    IF seq = <<>> THEN <<>>
    ELSE LET x == seq[Len(seq)]
             rest == sortNotes(SubSeq(seq, 1, Len(seq) - 1), key)
             before == {i \in DOMAIN rest : compareNotes(rest[i], x, key) <= 0}
             k == IF before = {} THEN 0 ELSE MaxOf(before)
         IN SubSeq(rest, 1, k) \o <<x>> \o SubSeq(rest, k + 1, Len(rest))

\* (variant of searchMatches: only the title is searched)
searchMatchesTitle(n, q) ==
    LET query == trim(toLowerCase(q))
    IN includes(toLowerCase(n.v.title), query)

\* the search filter of getFilteredNotes, for a non-blank searchQuery q
searchMatches(n, q) ==
    LET query == trim(toLowerCase(q))
    IN \/ includes(toLowerCase(n.v.title), query)
       \/ includes(toLowerCase(stripHTML(n.v.content)), query)
       \/ includes(toLowerCase(join(n.v.tags)), query)

getFilteredNotes(ns, quick, folder, tag, q, key) ==
    LET f1 == SelectSeq(ns, LAMBDA n :
                  CASE quick = "recent" -> n.v.modifiedAt >= QueryNow - Week
                    [] quick = "favorites" -> n.v.isFavorite
                    [] quick = "shared" -> n.v.isShared
                    [] OTHER -> TRUE)
        f2 == IF folder # Null
              THEN SelectSeq(f1, LAMBDA n : n.v.folderId = folder) ELSE f1
        f3 == IF tag # <<>>
              THEN SelectSeq(f2, LAMBDA n : \E i \in DOMAIN n.v.tags : n.v.tags[i] = tag)
              ELSE f2
        f4 == IF q # <<>> /\ trim(q) # <<>>
              THEN SelectSeq(f3, LAMBDA n : searchMatches(n, q)) ELSE f3
    IN sortNotes(f4, key)

QueryInit ==
    /\ RepoInit /\ TagsIdle /\ ValIdle /\ FieldsIdle /\ SyncIdle /\ OpenIdle
    /\ BulkIdle /\ EditorIdle /\ SearchIdle /\ IdsIdle /\ QueueIdle
    /\ QueryIdle

queryOthers == <<repoVars, tagVars, valVars, fieldVars, syncVars, openVars,
                 connVars, bulkVars, editorVars, searchVars, idVars, queueVars>>

\* createNote(): notes.set(id, note) for a new note without title, content,
\* tags or folder, created now
QCreateNote ==
    /\ qNextId <= MaxQNotes
    /\ qNotes' = Append(qNotes, WithId(qNextId,
                    QNote(<<>>, <<>>, <<>>, Null, FALSE, FALSE, QueryNow, QueryNow)))
    /\ qNextId' = qNextId + 1
    /\ qResult' = NoQuery
    /\ UNCHANGED <<quickFilter, folderFilter, tagFilter, searchQuery, sortBy,
                   queryOthers>>

\* updateNote / loadNotes: notes.set(id, note) for a note that is in the map,
\* which keeps its place
QUpdateNote(i, v) ==
    /\ i \in DOMAIN qNotes
    /\ qNotes' = [qNotes EXCEPT ![i] = WithId(qNotes[i].id, v)]
    /\ qResult' = NoQuery
    /\ UNCHANGED <<qNextId, quickFilter, folderFilter, tagFilter, searchQuery,
                   sortBy, queryOthers>>

\* notes.delete(id)
QDeleteNote(i) ==
    /\ i \in DOMAIN qNotes
    /\ qNotes' = SubSeq(qNotes, 1, i - 1) \o SubSeq(qNotes, i + 1, Len(qNotes))
    /\ qResult' = NoQuery
    /\ UNCHANGED <<qNextId, quickFilter, folderFilter, tagFilter, searchQuery,
                   sortBy, queryOthers>>

SetQuickFilter(filter) ==
    /\ quickFilter' = filter
    /\ qResult' = NoQuery
    /\ UNCHANGED <<qNotes, qNextId, folderFilter, tagFilter, searchQuery, sortBy,
                   queryOthers>>

SetFolderFilter(folderId) ==
    /\ folderFilter' = folderId
    /\ qResult' = NoQuery
    /\ UNCHANGED <<qNotes, qNextId, quickFilter, tagFilter, searchQuery, sortBy,
                   queryOthers>>

SetTagFilter(tag) ==
    /\ tagFilter' = tag
    /\ qResult' = NoQuery
    /\ UNCHANGED <<qNotes, qNextId, quickFilter, folderFilter, searchQuery, sortBy,
                   queryOthers>>

\* setSearchFilter(query): the query is stored trimmed
SetSearchFilter(query) ==
    /\ searchQuery' = trim(query)
    /\ qResult' = NoQuery
    /\ UNCHANGED <<qNotes, qNextId, quickFilter, folderFilter, tagFilter, sortBy,
                   queryOthers>>

SetSortBy(key) ==
    /\ sortBy' = key
    /\ qResult' = NoQuery
    /\ UNCHANGED <<qNotes, qNextId, quickFilter, folderFilter, tagFilter,
                   searchQuery, queryOthers>>

GetFilteredNotes ==
    /\ ~qResult.called
    /\ qResult' = [called |-> TRUE,
                   notes |-> getFilteredNotes(qNotes, quickFilter, folderFilter,
                                              tagFilter, searchQuery, sortBy)]
    /\ UNCHANGED <<qNotes, qNextId, quickFilter, folderFilter, tagFilter,
                   searchQuery, sortBy, queryOthers>>

QueryNext ==
    \/ QCreateNote
    \/ \E i \in QueryIds, v \in QueryNoteValues : QUpdateNote(i, v)
    \/ \E i \in QueryIds : QDeleteNote(i)
    \/ \E filter \in QuickFilters : SetQuickFilter(filter)
    \/ \E folderId \in {Null, 1} : SetFolderFilter(folderId)
    \/ \E tag \in {<<>>, <<1>>} : SetTagFilter(tag)
    \/ \E query \in QueryInputs : SetSearchFilter(query)
    \/ \E key \in SortKeys : SetSortBy(key)
    \/ GetFilteredNotes

SpecQuery == QueryInit /\ [][QueryNext]_vars

\* ----------------------------------------------------------- SearchManager
\* Two more characters of the query strings: the double quote and the dash.
Quote == 30
Dash == 31
maxHistorySize == 10
MaxSmOps == 2

\* a property of a filters object that may lack it (undefined is falsy)
field(f, k, d) == IF k \in DOMAIN f THEN f[k] ELSE d
\* the elements of an array
elems(seq) == {seq[i] : i \in DOMAIN seq}

\* parseSearchQuery: the loop over the characters of the query, from position i
RECURSIVE parseFrom(_, _, _, _, _)
parseFrom(query, i, terms, current, inQuotes) ==
    IF i > Len(query)
    THEN IF trim(current) # <<>> THEN Append(terms, trim(current)) ELSE terms
    ELSE IF query[i] = Quote
    THEN parseFrom(query, i + 1, terms, Append(current, query[i]), ~inQuotes)
    ELSE IF query[i] = 0 /\ ~inQuotes
    THEN IF trim(current) # <<>>
         THEN parseFrom(query, i + 1, Append(terms, trim(current)), <<>>, inQuotes)
         ELSE parseFrom(query, i + 1, terms, current, inQuotes)
    ELSE parseFrom(query, i + 1, terms, Append(current, query[i]), inQuotes)
parseSearchQuery(query) == parseFrom(query, 1, <<>>, <<>>, FALSE)

\* the text noteContainsTerm and noteContainsPhrase search in: the enabled
\* fields in lower case, a blank after the title and after the content
buildSearchText(note, f) ==
    (IF field(f, "includeTitle", FALSE)
     THEN toLowerCase(note.title) \o <<0>> ELSE <<>>)
    \o (IF field(f, "includeContent", FALSE)
        THEN toLowerCase(stripHTML(note.content)) \o <<0>> ELSE <<>>)
    \o (IF field(f, "includeTags", FALSE)
        THEN toLowerCase(join(note.tags)) ELSE <<>>)
noteContainsTerm(note, term, f) == includes(buildSearchText(note, f), term)
noteContainsPhrase(note, phrase, f) == includes(buildSearchText(note, f), phrase)

\* the callback of searchTerms.every
termHolds(note, term, f) ==
    IF term[1] = Dash
    THEN ~noteContainsTerm(note, toLowerCase(SubSeq(term, 2, Len(term))), f)
    ELSE IF term[1] = Quote /\ term[Len(term)] = Quote
    THEN noteContainsPhrase(note, toLowerCase(SubSeq(term, 2, Len(term) - 1)), f)
    ELSE noteContainsTerm(note, toLowerCase(term), f)

\* variant: a note is kept when some term holds
performTextSearchAny(ns, sq, f) ==
    LET searchTerms == parseSearchQuery(sq)
    IN SelectSeq(ns, LAMBDA n :
           \E k \in DOMAIN searchTerms : termHolds(n, searchTerms[k], f))

performTextSearch(ns, sq, f) ==
    LET searchTerms == parseSearchQuery(sq)
    IN SelectSeq(ns, LAMBDA n :
           \A k \in DOMAIN searchTerms : termHolds(n, searchTerms[k], f))

applyFilters(ns, f) ==
    LET fFolders == field(f, "folders", {})
        fTags == field(f, "tags", {})
        dateFrom == field(f, "dateFrom", Null)
        dateTo == field(f, "dateTo", Null)
        f1 == IF fFolders # {}
              THEN SelectSeq(ns, LAMBDA n : n.folderId \in fFolders) ELSE ns
        f2 == IF fTags # {}
              THEN SelectSeq(f1, LAMBDA n : \E t \in fTags : t \in elems(n.tags))
              ELSE f1
    IN IF dateFrom # Null \/ dateTo # Null
       THEN SelectSeq(f2, LAMBDA n :
                /\ ~(dateFrom # Null /\ n.modifiedAt < dateFrom)
                /\ ~(dateTo # Null /\ n.modifiedAt > dateTo))
       ELSE f2

\* the filters argument of search when the caller passes none
NoFiltersArg == [isNull |-> TRUE]
\* query || this.query and filters || this.filters
effectiveQuery(sq, own) == IF sq # <<>> THEN sq ELSE own
effectiveFilters(f, own) == IF "isNull" \in DOMAIN f THEN own ELSE f

\* variant: the filters are applied to the result of a text search only
searchTextOnly(ns, sq, f) ==
    IF trim(sq) # <<>> THEN applyFilters(performTextSearch(ns, sq, f), f) ELSE ns

\* search(notes, query, filters) with the query and the filters in effect
search(ns, sq, f) ==
    LET results == IF trim(sq) # <<>> THEN performTextSearch(ns, sq, f) ELSE ns
    IN applyFilters(results, f)

\* variant: the new entry is put in front and an older equal entry stays
addToHistoryKeepsDuplicate(history, query) ==
    IF trim(query) = <<>> THEN history
    ELSE LET added == <<trim(query)>> \o history
         IN IF Len(added) > maxHistorySize
            THEN SubSeq(added, 1, maxHistorySize) ELSE added

\* addToHistory(query): the history it leaves in this.searchHistory
addToHistory(history, query) ==
    IF trim(query) = <<>> THEN history
    ELSE LET trimmedQuery == trim(query)
             spliced == SelectSeq(history, LAMBDA h : h # trimmedQuery)
             added == <<trimmedQuery>> \o spliced
         IN IF Len(added) > maxHistorySize
            THEN SubSeq(added, 1, maxHistorySize) ELSE added

\* the notes array passed to search: 'A'; 'a b' in folder 1; 'b' with the
\* content 'a' inside markup, in folder 2; an untitled note tagged a and b, in
\* folder 1
SNote(id, title, content, tags, folderId, modifiedAt) ==
    [id |-> id, title |-> title, content |-> content, tags |-> tags,
     folderId |-> folderId, modifiedAt |-> modifiedAt]
SearchNotes ==
    <<SNote(1, <<11>>, <<>>, <<>>, Null, 1),
      SNote(2, <<1, 0, 2>>, <<>>, <<>>, 1, 2),
      SNote(3, <<2>>, <<20, 1, 20>>, <<>>, 2, 3),
      SNote(4, <<>>, <<>>, << <<1>>, <<2>> >>, 1, 4)>>
\* a history of maxHistorySize entries, the most recent first
HistoryFull ==
    << <<3>>, <<4>>, <<5>>, <<6>>, <<7>>, <<8>>, <<9>>, <<11>>, <<12>>, <<1, 2>> >>
\* queries typed into the search box: a, a -b, "a b", A b, a blank, B
SearchQueries ==
    {<<1>>, <<1, 0, Dash, 2>>, <<Quote, 1, 0, 2, Quote>>, <<11, 0, 2>>, <<0>>, <<12>>}
\* arguments of addToHistory: ' a ', 'ab', the empty string
HistoryInputs == {<<0, 1, 0>>, <<1, 2>>, <<>>}
\* query arguments of search: none, -, -"a b", "b a", a "
SearchArgs ==
    {<<>>, <<Dash>>, <<Dash, Quote, 1, 0, 2, Quote>>, <<Quote, 2, 0, 1, Quote>>,
     <<1, 0, Quote>>}
\* arguments of setFilters
FilterPatches ==
    {[folders |-> {1}], [tags |-> {<<1>>, <<12>>}], [dateFrom |-> 2, dateTo |-> 3],
     [includeTitle |-> FALSE], [includeContent |-> FALSE, includeTags |-> FALSE]}
\* filters arguments of search
FilterArgs ==
    {NoFiltersArg, [folders |-> {1, 2}],
     [folders |-> {}, tags |-> {<<2>>}, dateFrom |-> Null, dateTo |-> 3,
      includeContent |-> TRUE, includeTags |-> TRUE, includeTitle |-> TRUE]}

SearchInit ==
    /\ RepoInit /\ TagsIdle /\ ValIdle /\ FieldsIdle /\ SyncIdle /\ OpenIdle
    /\ BulkIdle /\ EditorIdle /\ QueryIdle /\ IdsIdle /\ QueueIdle
    /\ smQuery = <<>>
    /\ smFilters = DefaultFilters
    /\ \/ searchHistory = <<>> /\ localHistory = NoItem
       \/ /\ searchHistory = HistoryFull
          /\ localHistory = [present |-> TRUE, value |-> HistoryFull]
    /\ smLast = NoSmCall
    /\ smRet = NoSmRet
    /\ smOps = 0

searchOthers == <<repoVars, tagVars, valVars, fieldVars, syncVars, openVars,
                  connVars, bulkVars, editorVars, queryVars,
                  idVars, queueVars>>

\* saveSearchHistory: localStorage.setItem('searchHistory', JSON.stringify(h));
\* the JSON text of an array of strings parses back to the same array
saveSearchHistory(history) == [present |-> TRUE, value |-> history]

\* setQuery(query): this.query = query; this.addToHistory(query)
SetQuery(query) ==
    /\ smOps < MaxSmOps
    /\ smQuery' = query
    /\ searchHistory' = addToHistory(searchHistory, query)
    /\ localHistory' = IF trim(query) = <<>> THEN localHistory
                       ELSE saveSearchHistory(searchHistory')
    /\ smLast' = [op |-> "setQuery", arg |-> query]
    /\ smRet' = NoSmRet
    /\ smOps' = smOps + 1
    /\ UNCHANGED <<smFilters, searchOthers>>

AddToHistory(query) ==
    /\ smOps < MaxSmOps
    /\ searchHistory' = addToHistory(searchHistory, query)
    /\ localHistory' = IF trim(query) = <<>> THEN localHistory
                       ELSE saveSearchHistory(searchHistory')
    /\ smLast' = [op |-> "addToHistory", arg |-> query]
    /\ smRet' = NoSmRet
    /\ smOps' = smOps + 1
    /\ UNCHANGED <<smQuery, smFilters, searchOthers>>

ClearSearchHistory ==
    /\ smOps < MaxSmOps
    /\ searchHistory' = <<>>
    /\ localHistory' = saveSearchHistory(searchHistory')
    /\ smLast' = [op |-> "clearSearchHistory", arg |-> <<>>]
    /\ smRet' = NoSmRet
    /\ smOps' = smOps + 1
    /\ UNCHANGED <<smQuery, smFilters, searchOthers>>

\* loadSearchHistory: the stored array replaces the history when the item exists
LoadSearchHistory ==
    /\ smOps < MaxSmOps
    /\ searchHistory' = IF localHistory.present THEN localHistory.value
                        ELSE searchHistory
    /\ smLast' = [op |-> "loadSearchHistory", arg |-> <<>>]
    /\ smRet' = NoSmRet
    /\ smOps' = smOps + 1
    /\ UNCHANGED <<smQuery, smFilters, localHistory, searchOthers>>

\* the page is loaded again: new SearchManager(), localStorage stays
NewSearchManager ==
    /\ smOps < MaxSmOps
    /\ smQuery' = <<>>
    /\ smFilters' = DefaultFilters
    /\ searchHistory' = <<>>
    /\ smLast' = [op |-> "constructor", arg |-> <<>>]
    /\ smRet' = NoSmRet
    /\ smOps' = smOps + 1
    /\ UNCHANGED <<localHistory, searchOthers>>

\* setFilters(filters): { ...this.filters, ...filters }
SetFilters(patch) ==
    /\ smOps < MaxSmOps
    /\ smFilters' = [k \in DOMAIN smFilters |->
                        IF k \in DOMAIN patch THEN patch[k] ELSE smFilters[k]]
    /\ smLast' = [op |-> "setFilters", arg |-> <<>>]
    /\ smRet' = NoSmRet
    /\ smOps' = smOps + 1
    /\ UNCHANGED <<smQuery, searchHistory, localHistory, searchOthers>>

\* search(notes, query, filters)
Search(sq, f) ==
    /\ smRet' = [called |-> TRUE, query |-> sq, filters |-> f,
                 notes |-> search(SearchNotes, effectiveQuery(sq, smQuery),
                                  effectiveFilters(f, smFilters))]
    /\ UNCHANGED <<smQuery, smFilters, searchHistory, localHistory, smLast,
                   smOps, searchOthers>>

SearchNext ==
    \/ \E query \in SearchQueries : SetQuery(query)
    \/ \E query \in HistoryInputs : AddToHistory(query)
    \/ ClearSearchHistory
    \/ LoadSearchHistory
    \/ NewSearchManager
    \/ \E patch \in FilterPatches : SetFilters(patch)
    \/ \E sq \in SearchArgs, f \in FilterArgs : Search(sq, f)

SpecSearch == SearchInit /\ [][SearchNext]_vars

\* ------------------------------------------------- NoteManager.generateId
\* generateId: `note_${timestamp}_${randomPart}_${counterPart}`; the three
\* parts are digits of base 36 between underscores, so two identifiers are
\* equal exactly when the three parts are. The timestamp is the clock in
\* milliseconds, the random part what Math.random gave, the counter the number
\* of notes plus the number of folders in the cache.
generateId(timestamp, randomPart, ns, fs) ==
    <<timestamp, randomPart, Cardinality(DOMAIN ns) + Cardinality(DOMAIN fs)>>
\* values of Math.random().toString(36).substring(2, 15)
Randoms == {0, 1}
\* the identifiers generateId can return within the bounds
GeneratedIds == (0..MaxMillis) \X Randoms \X (0..MaxIdOps)
\* Map.prototype.set and Map.prototype.delete
mapSet(m, k, v) == [x \in (DOMAIN m) \cup {k} |-> IF x = k THEN v ELSE m[x]]
mapDelete(m, k) == [x \in (DOMAIN m) \ {k} |-> m[x]]

IdsInit ==
    /\ RepoInit /\ TagsIdle /\ ValIdle /\ FieldsIdle /\ SyncIdle /\ OpenIdle
    /\ BulkIdle /\ EditorIdle /\ QueryIdle /\ SearchIdle
    /\ IdsIdle /\ QueueIdle

idsOthers == <<repoVars, tagVars, valVars, fieldVars, syncVars, openVars,
               connVars, bulkVars, editorVars, queryVars, searchVars,
               queueVars>>

\* createNote(): this.notes.set(validatedNote.id, validatedNote); the entities
\* are numbered in the order of their creation
GCreateNote(randomPart) ==
    /\ gOps < MaxIdOps
    /\ LET id == generateId(gNow, randomPart, gNotes, gFolders)
       IN /\ gNotes' = mapSet(gNotes, id, gOps + 1)
          /\ gIssued' = gIssued \cup {id}
          /\ gLast' = [op |-> "createNote", called |-> TRUE, id |-> id,
                       issuedBefore |-> id \in gIssued,
                       overwrote |-> id \in DOMAIN gNotes]
    /\ gOps' = gOps + 1
    /\ UNCHANGED <<gFolders, gNow, idsOthers>>

\* createFolder(name): this.folders.set(folder.id, folder)
GCreateFolder(randomPart) ==
    /\ gOps < MaxIdOps
    /\ LET id == generateId(gNow, randomPart, gNotes, gFolders)
       IN /\ gFolders' = mapSet(gFolders, id, gOps + 1)
          /\ gIssued' = gIssued \cup {id}
          /\ gLast' = [op |-> "createFolder", called |-> TRUE, id |-> id,
                       issuedBefore |-> id \in gIssued,
                       overwrote |-> id \in DOMAIN gFolders]
    /\ gOps' = gOps + 1
    /\ UNCHANGED <<gNotes, gNow, idsOthers>>

\* deleteNote(id): this.notes.delete(id)
GDeleteNote(id) ==
    /\ gOps < MaxIdOps
    /\ id \in DOMAIN gNotes
    /\ gNotes' = mapDelete(gNotes, id)
    /\ gLast' = [op |-> "deleteNote", called |-> FALSE, id |-> id,
                 issuedBefore |-> FALSE,
                 overwrote |-> FALSE]
    /\ gOps' = gOps + 1
    /\ UNCHANGED <<gFolders, gIssued, gNow, idsOthers>>

\* deleteFolder(id): this.folders.delete(id)
GDeleteFolder(id) ==
    /\ gOps < MaxIdOps
    /\ id \in DOMAIN gFolders
    /\ gFolders' = mapDelete(gFolders, id)
    /\ gLast' = [op |-> "deleteFolder", called |-> FALSE, id |-> id,
                 issuedBefore |-> FALSE,
                 overwrote |-> FALSE]
    /\ gOps' = gOps + 1
    /\ UNCHANGED <<gNotes, gIssued, gNow, idsOthers>>

\* a millisecond passes
GTick ==
    /\ gNow < MaxMillis
    /\ gNow' = gNow + 1
    /\ UNCHANGED <<gNotes, gFolders, gIssued, gLast, gOps, idsOthers>>

IdsNext ==
    \/ \E randomPart \in Randoms : GCreateNote(randomPart)
    \/ \E randomPart \in Randoms : GCreateFolder(randomPart)
    \/ \E id \in GeneratedIds : GDeleteNote(id)
    \/ \E id \in GeneratedIds : GDeleteFolder(id)
    \/ GTick

SpecIds == IdsInit /\ [][IdsNext]_vars

\* ------------------------------------- StorageManager._queueOperation
\* Operations are numbered in the order of their submission.  An operation
\* returns a promise that resolves or rejects later, or throws when it is
\* called.  A promise is settled with the result or error of operation `of`;
\* of = 0 is the error of close().
OpKinds == {"resolves", "rejects", "throws"}
Settled(state, id) == [state |-> state, of |-> id]

QueueInit ==
    /\ RepoInit /\ TagsIdle /\ ValIdle /\ FieldsIdle /\ SyncIdle /\ OpenIdle
    /\ BulkIdle /\ EditorIdle /\ QueryIdle /\ SearchIdle /\ IdsIdle
    /\ QueueIdle

queueOthers == <<repoVars, tagVars, valVars, fieldVars, syncVars, openVars,
                 connVars, bulkVars, editorVars, queryVars, searchVars, idVars>>

\* the fields of the StorageManager the queue works on
QueueState ==
    [queue |-> operationQueue, processing |-> isProcessingQueue, kind |-> opKind,
     running |-> opRunning, promise |-> opPromise, started |-> opStarted]
SetQueueState(st) ==
    /\ operationQueue' = st.queue
    /\ isProcessingQueue' = st.processing
    /\ opKind' = st.kind
    /\ opRunning' = st.running
    /\ opPromise' = st.promise
    /\ opStarted' = st.started

\* the while loop of _processQueue from its test up to its next await: the
\* head of the queue is shifted and called; an operation that throws is
\* rejected at once and the loop goes on; when the queue is empty the flag
\* is cleared
RECURSIVE loop(_)
loop(st) ==
    IF st.queue = <<>> THEN [st EXCEPT !.processing = FALSE]
    ELSE LET id == Head(st.queue)
             shifted == [st EXCEPT !.queue = Tail(st.queue),
                                   !.started = Append(st.started, id)]
         IN IF st.kind[id] = "throws"
            THEN loop([shifted EXCEPT !.promise[id] = Settled("rejected", id)])
            ELSE [shifted EXCEPT !.running = shifted.running \cup {id}]

\* (variant of _processQueue: no isProcessingQueue guard)
processQueueUnguarded(st) ==
    IF st.queue = <<>> THEN st ELSE loop([st EXCEPT !.processing = TRUE])

\* _processQueue(): returns when a loop is running or nothing waits
processQueue(st) ==
    IF st.processing \/ st.queue = <<>> THEN st
    ELSE loop([st EXCEPT !.processing = TRUE])

\* _queueOperation(operation): push and _processQueue()
QueueOperation(kind) ==
    /\ opNext <= MaxQueueOps
    /\ LET id == opNext
           pushed == [QueueState EXCEPT !.queue = Append(operationQueue, id),
                                        !.kind[id] = kind,
                                        !.promise[id] = Settled("pending", 0)]
       IN /\ SetQueueState(processQueue(pushed))
          /\ opLast' = [op |-> "queueOperation", id |-> id, waiting |-> <<>>]
    /\ opNext' = opNext + 1
    /\ UNCHANGED queueOthers

\* the promise of operation id settles: the loop that awaits it resolves or
\* rejects the caller's promise and goes on
OperationSettles(id) ==
    /\ id \in opRunning
    /\ LET outcome == IF opKind[id] = "resolves" THEN "resolved" ELSE "rejected"
           resumed == [QueueState EXCEPT !.running = opRunning \ {id},
                                         !.promise[id] = Settled(outcome, id)]
       IN SetQueueState(loop(resumed))
    /\ opLast' = [op |-> "settle", id |-> id, waiting |-> <<>>]
    /\ UNCHANGED <<opNext, queueOthers>>

\* close(): every waiting operation is rejected and the queue is emptied;
\* db, initPromise and connectionAttempts are reset (they are in that state)
Close ==
    /\ operationQueue' = <<>>
    /\ opPromise' = [i \in QueueOps |->
                        IF \E k \in DOMAIN operationQueue : operationQueue[k] = i
                        THEN Settled("rejected", 0) ELSE opPromise[i]]
    /\ opLast' = [op |-> "close", id |-> 0, waiting |-> operationQueue]
    /\ UNCHANGED <<isProcessingQueue, opKind, opRunning, opStarted, opNext,
                   queueOthers>>

QueueNext ==
    \/ \E kind \in OpKinds : QueueOperation(kind)
    \/ \E id \in QueueOps : OperationSettles(id)
    \/ Close

SpecQueue == QueueInit /\ [][QueueNext]_vars

\* -------------------------------------------------------- properties
LoadCount == Cardinality({i \in DOMAIN txQueue : txQueue[i].kind = "load"})
SaveCount == Cardinality({i \in DOMAIN txQueue : txQueue[i].kind = "save"})
\* what loadNotes puts into a fresh NoteManager from the current store
FreshNotes == LoadedNotes(NoNotes, NoFolders, dbNotes)
FreshFolders == LoadedFolders(NoFolders, dbFolders)

UpdateDurable ==
    (ret.op = "updateNote" /\ ret.ok = "true") => dbNotes[ret.id] = ret.val

\* C3: when a save has just completed and nothing is in flight, cache and
\* store hold the same notes and folders with the same values (stated here
\* for runs without store failure and caches whose folders have valid names).
Convergence ==
    (/\ lastSave.done /\ txQueue = <<>> /\ failures = 0
     /\ \A f \in FolderIds : Has(folders, f) => validateFolder(folders[f]).present) =>
        /\ \A i \in NoteIds : notes[i] = dbNotes[i]
        /\ \A f \in FolderIds : folders[f] = dbFolders[f]

\* C4: what a completed save wrote (notes, and folders that contain every
\* folder the notes refer to) is what a fresh NoteManager loads.
RoundTrip ==
    (/\ lastSave.done /\ failures = 0
     /\ \A i \in NoteIds :
           (lastSave.notes[i].present /\ lastSave.notes[i].folderId # Null) =>
               lastSave.folders[lastSave.notes[i].folderId].present) =>
        /\ \A i \in NoteIds :
              lastSave.notes[i].present => FreshNotes[i] = lastSave.notes[i]
        /\ \A f \in FolderIds :
              lastSave.folders[f].present => FreshFolders[f] = lastSave.folders[f]

\* C5: at most one load is reading the store, exactly while loadInProgress
\* is set; a loadNotes call made meanwhile issues no read and leaves the
\* cache alone.
LoadGuard ==
    /\ [](LoadCount <= 1 /\ (loadInProgress <=> LoadCount = 1))
    /\ [][(ret'.op = "loadNotes" /\ ret'.ok = "skipped") =>
              /\ loadInProgress
              /\ UNCHANGED <<notes, noteOrder, folders, txQueue, dbNotes, dbFolders>>]_vars
    /\ [][loadInProgress => LoadCount' <= LoadCount]_vars

LoadGuardWitness ==
    ret.op = "loadNotes" /\ ret.ok = "skipped" /\ LoadCount = 1

\* C6: at most one save has a write in flight, exactly while saveInProgress
\* is set; while it is set no call starts another write, and the write that
\* completes puts the data snapshot its transaction was created with.
SaveGuard ==
    /\ [](SaveCount <= 1 /\ (saveInProgress <=> SaveCount = 1))
    /\ [][saveInProgress => SaveCount' <= SaveCount]_vars
    /\ [][(ret'.op = "createNote" /\ ~saveInProgress) =>
              /\ txQueue'[Len(txQueue')].kind = "save"
              /\ txQueue'[Len(txQueue')].notes = SnapshotNotes(notes', folders')]_vars
    /\ [][(saveInProgress /\ lastSave'.done) =>
              /\ Head(txQueue).kind = "save"
              /\ lastSave'.notes = Head(txQueue).notes
              /\ dbNotes' = PutAll(dbNotes, Head(txQueue).notes)
              /\ dbFolders' = PutAll(dbFolders, Head(txQueue).folders)]_vars

\* a createNote whose save was dropped: the save in flight does not have it
SaveGuardWitness ==
    /\ ret.op = "createNote" /\ saveInProgress
    /\ \E i \in DOMAIN txQueue :
          txQueue[i].kind = "save" /\ ~txQueue[i].notes[ret.id].present

\* C7: a deleteFolder(F) that returns true leaves F out of the folder map,
\* removes no note, and every note that was in F has folderId null.
FolderDetach ==
    [][(ret'.op = "deleteFolder" /\ ret'.ok = "true") =>
          /\ ~Has(folders', ret'.id)
          /\ \A n \in NoteIds :
                Has(notes, n) =>
                    /\ Has(notes', n)
                    /\ notes[n].folderId = ret'.id => notes'[n].folderId = Null]_vars

FolderDetachWitness ==
    ret.op = "deleteFolder" /\ ret.ok = "true" /\ Cardinality(ret.members) = 2

\* C8: after deleteFolder(F), once every store operation has completed
\* without failure, the store has no folder F and no note referring to F.
FolderDeleteDurable ==
    \A F \in folderDelSaving :
        (txQueue = <<>> /\ failures = 0) =>
            /\ ~Has(dbFolders, F)
            /\ \A n \in NoteIds : Has(dbNotes, n) => dbNotes[n].folderId # F

\* C9: every cached note's folderId is null or a folder in the cache.
ReferentialIntegrity ==
    \A n \in NoteIds :
        Has(notes, n) =>
            notes[n].folderId = Null \/ Has(folders, notes[n].folderId)

\* a folder that had a member note was deleted and the note is still cached
ReferentialIntegrityWitness ==
    /\ ret.op = "deleteFolder" /\ ret.ok = "true"
    /\ \E n \in ret.members : Has(notes, n) /\ notes[n].folderId = Null
    /\ ~Has(folders, ret.id)

\* C10: the tags of a validated note are the first maxTagsPerNote elements
\* of the cleaned (strings only, non-blank, trimmed, truncated) list with
\* its duplicates removed.
TagCap ==
    tagsDone =>
        tagsOut = IF tagsIn.isArray
                  THEN substring(FirstOccurrences(CleanTags(tagsIn.items)),
                                 maxTagsPerNote)
                  ELSE <<>>

\* a >= b on dates and numbers as JavaScript compares them
Geq(a, b) == a \notin {NaN, InvalidDate} /\ b \notin {NaN, InvalidDate} /\ a >= b

\* C11: the tags of the cached note are pairwise distinct, non-empty,
\* without leading or trailing whitespace, at most maxTagLength characters
\* long, and at most maxTagsPerNote in number.
TagInvariant ==
    cur # NullNote =>
        LET ts == cur.tags.items
        IN /\ Len(ts) <= maxTagsPerNote
           /\ \A i \in DOMAIN ts :
                 /\ ts[i].isString
                 /\ Len(ts[i].chars) >= 1
                 /\ Len(ts[i].chars) <= maxTagLength
                 /\ ts[i].chars[1] # 0
                 /\ ts[i].chars[Len(ts[i].chars)] # 0
           /\ \A i, j \in DOMAIN ts : i # j => ts[i] # ts[j]

\* C12: validating the entity that validateNote / validateFolder returned
\* gives an entity with the same field values.
ValidationIdempotent ==
    valStep = 3 => valAgain.val = valLenient.val

\* the records of valStore that validateNote accepts: objects with a string id
ValidAt(id) ==
    {i \in DOMAIN valStore : valStore[i].kind = "object" /\ valStore[i].id = id}

\* C13: validate(x, false) never raises and returns null for an invalid x,
\* validate(x, true) raises for exactly those x and returns the same entity
\* otherwise; loadNotes does not fail, skips the invalid records and loads
\* every valid one.
StrictLenient ==
    /\ valStep \in 1..3 => ~valLenient.raised
    /\ valStep \in 2..3 =>
          /\ valStrict.raised <=> valLenient.val = NullNote
          /\ ~valStrict.raised => valStrict.val = valLenient.val
    /\ valStep = 4 =>
          /\ ~valLenient.raised
          /\ \A id \in NoteIds :
                IF ValidAt(id) = {} THEN valCache[id] = NullNote
                ELSE /\ valCache[id] # NullNote
                     /\ valCache[id].id = id
                     /\ \E i \in ValidAt(id) :
                           valCache[id] =
                             validateNoteObj(ObjFolders, valStore[i], FALSE, now).val

\* a store with an invalid record before a valid one has been loaded
StrictLenientWitness ==
    /\ valStep = 4
    /\ Len(valStore) = 2
    /\ valStore[1].id = NumberId
    /\ valStore[2].id \in NoteIds
    /\ valCache[valStore[2].id] # NullNote

\* C14: modifiedAt >= createdAt for the cached note, and modifiedAt does
\* not decrease when the note is updated.
TimestampInvariant ==
    /\ [](cur # NullNote => Geq(cur.modifiedAt, cur.createdAt))
    /\ [][(cur # NullNote /\ lastOp' \in {"updateNote", "toggleFavorite",
                                          "addTagToNote", "removeTagFromNote"}) =>
              Geq(cur'.modifiedAt, cur.modifiedAt)]_vars

\* C15: the cached note keeps the createdAt that createNote gave it through
\* updateNote, toggleFavorite, addTagToNote and removeTagFromNote.
CreatedAtImmutable ==
    (cur # NullNote /\ born # 0) => cur.createdAt = born

\* C16: the version of the cached note is at least 1 and is not decreased
\* by updateNote.
VersionCounter ==
    /\ [](cur # NullNote => Geq(cur.version, 1))
    /\ [][(cur # NullNote /\ lastOp' = "updateNote") =>
              Geq(cur'.version, cur.version)]_vars

\* the step in which the for loop of syncNotes ends and syncNotes returns
LoopEnds == swPc \in {"push", "mark"} /\ swPc' = "idle"
MarksInFlight == {i \in DOMAIN txQueue : txQueue[i].kind = "mark"}

\* C17: when a cycle ends, every note it found unsynced has been pushed
\* exactly once, in the order found; a note whose push succeeded (and whose
\* mark did not fail) is synced in the store if it still exists (stated here
\* for notes whose stored fields are still those the mark put); a note whose
\* push failed was left alone, is still unsynced and did not stop the loop;
\* a cycle's read selects every stored note that is not synced.
SyncOutcome ==
    /\ [][LoopEnds =>
             /\ Len(swLog') = Len(swUnsynced')
             /\ \A k \in DOMAIN swLog' :
                   LET e == swLog'[k]
                   IN /\ e.id = swUnsynced'[k]
                      /\ (/\ e.push = "ok" /\ e.mark = "ok"
                          /\ Has(dbNotes', e.id)
                          /\ Synced(dbNotes'[e.id]) = e.rec) =>
                             IsSynced(dbNotes'[e.id])
                      /\ (e.push = "failed" /\ Has(dbNotes', e.id)) =>
                             ~IsSynced(dbNotes'[e.id])]_vars
    /\ [][(swPc = "push" /\ failedCount' = failedCount + 1) =>
             dbNotes' = dbNotes]_vars
    /\ [][(swPc = "read" /\ swPc' = "push") =>
             \A i \in NoteIds :
                 (Has(dbNotes, i) /\ ~IsSynced(dbNotes[i])) =>
                     \E k \in DOMAIN swUnsynced' : swUnsynced'[k] = i]_vars

\* C18: the promise of syncNotes never rejects, and when the loop ends
\* syncedCount + failedCount is the number of unsynced notes found.
SyncContained ==
    /\ [](swResult # "rejected")
    /\ [][LoopEnds => syncedCount' + failedCount' = Len(swUnsynced')]_vars

\* a cycle has ended with one note synced and one failed
SyncContainedWitness ==
    /\ swPc = "idle"
    /\ swResult = "resolved"
    /\ syncedCount >= 1
    /\ failedCount >= 1

Backoff(n) == [i \in 1..n |-> i]

\* C20 (as the code has it): _initDatabase makes at most 3 open attempts,
\* waiting 1 s after the first failure and 2 s after the second, each retry
\* starting no earlier than its delay; the third failure rejects at once, with
\* no further wait.  A successful attempt sets db, resets the attempt counter
\* to 0, and no further attempt is made.
OpenRetry ==
    /\ [](/\ opened <= maxConnectionAttempts
          /\ Len(waited) <= maxConnectionAttempts - 1
          /\ waited = Backoff(Len(waited))
          /\ (initPromise = "rejected" /\ idbAvailable)
                => /\ opened = maxConnectionAttempts
                   /\ waited = <<1, 2>>
                   /\ dbConn = Null
          /\ (initPromise = "resolved") => connectionAttempts = 0)
    /\ [][/\ (openPc = "waiting" /\ opened' # opened) => now >= timerDue
          /\ (initPromise # "resolved" /\ initPromise' = "resolved")
                => (dbConn' # Null /\ connectionAttempts' = 0)
          /\ (initPromise = "resolved")
                => (opened' = opened /\ initPromise' = "resolved")]_vars

\* C20 witness: three attempts failed, after waits of 1 s and 2 s
OpenRetryWitness ==
    /\ initPromise = "rejected"
    /\ idbAvailable
    /\ opened = 3
    /\ waited = <<1, 2>>

\* C20 (as stated): a run in which every attempt fails has waited 1 s, 2 s
\* and 3 s before it rejects
OpenRetryThreeWaits ==
    (initPromise = "rejected" /\ idbAvailable) => waited = <<1, 2, 3>>

\* C21: a saveNote made while db is null after an unexpected close fails with
\* an error value, and a saveNote made after a later init() has resolved
\* succeeds
ConnectionRecoverable ==
    /\ (lastStoreOp.lost # 0 /\ lastStoreOp.calls = lastStoreOp.lost)
          => lastStoreOp.result = "error"
    /\ (lastStoreOp.lost # 0 /\ lastStoreOp.calls > lastStoreOp.lost
            /\ initPromise = "resolved")
          => lastStoreOp.result = "ok"

\* C22: saveNotes(data) resolves only after every put of data has succeeded,
\* rejects when a put or the transaction has failed, and after a rejected call
\* a later loadNotes reads the stores as they were before the call
AtomicBulkSave ==
    /\ bulkPromise = "resolved" => completed = Total(bulkData)
    /\ (bulkFailed /\ bulkPc \in {"committed", "aborted"}) => bulkPromise = "rejected"
    /\ (bulkPromise = "rejected" /\ bulkSeen.read) => bulkSeen.stores = bulkBefore

\* C23: when createNote returns, the note it returns is the one in the cache
\* and no store write has been made in that step; the failure of the save it
\* scheduled settles as a logged saveNotes error, not as an error of
\* createNote, and leaves the cache as it is
CreateFireAndForget ==
    [][/\ (nextNoteId' # nextNoteId)
            => /\ ret' = Ret("createNote", nextNoteId, "true", notes'[nextNoteId], {})
               /\ Has(notes', nextNoteId)
               /\ ~Has(dbNotes', nextNoteId)
               /\ dbNotes' = dbNotes /\ dbFolders' = dbFolders
       /\ (txQueue # <<>> /\ Head(txQueue).cont = "fire" /\ failures' # failures)
            => /\ ret' = Ret("saveNotes", 0, "error", Absent, {})
               /\ notes' = notes /\ noteOrder' = noteOrder]_vars

\* C23 witness: the save scheduled by the only call made, a createNote, has
\* failed and the note is in the cache, not in the store
CreateFireAndForgetWitness ==
    /\ ops = 1 /\ nextNoteId = 2
    /\ ret = Ret("saveNotes", 0, "error", Absent, {})
    /\ Has(notes, 1)
    /\ ~Has(dbNotes, 1)

DirtyAfterFailure ==
    (edRet = [op |-> "updateNote", ok |-> "error"]) => heap[cacheRef].isDirty

\* the note n satisfies every active filter
QMatches(n) ==
    LET text == trim(toLowerCase(searchQuery))
    IN /\ quickFilter = "recent"
            => n.v.modifiedAt >= QueryNow - Week
       /\ quickFilter = "favorites" => n.v.isFavorite
       /\ quickFilter = "shared" => n.v.isShared
       /\ folderFilter # Null => n.v.folderId = folderFilter
       /\ tagFilter # <<>> => tagFilter \in {n.v.tags[i] : i \in DOMAIN n.v.tags}
       /\ text # <<>>
            => \/ includes(toLowerCase(n.v.title), text)
               \/ includes(toLowerCase(stripHTML(n.v.content)), text)
               \/ includes(toLowerCase(join(n.v.tags)), text)

KeyBefore(a, b) ==
    CASE sortBy = "created" -> a.v.createdAt > b.v.createdAt
      [] sortBy = "title" -> localeCompare(a.v.title, b.v.title) < 0
      [] sortBy = "folder" -> localeCompare(getFolderName(a.v.folderId),
                                            getFolderName(b.v.folderId)) < 0
      [] OTHER -> a.v.modifiedAt > b.v.modifiedAt
KeyEqual(a, b) ==
    CASE sortBy = "created" -> a.v.createdAt = b.v.createdAt
      [] sortBy = "title" -> a.v.title = b.v.title
      [] sortBy = "folder" -> getFolderName(a.v.folderId) = getFolderName(b.v.folderId)
      [] OTHER -> a.v.modifiedAt = b.v.modifiedAt
Position(n) == CHOOSE k \in DOMAIN qNotes : qNotes[k].id = n.id

EffQuery == effectiveQuery(smRet.query, smQuery)
EffFilters == effectiveFilters(smRet.filters, smFilters)
\* the blanks of q outside double quotes
QuotesBefore(q, i) == Cardinality({j \in 1..(i - 1) : q[j] = Quote})
Separators(q) == {i \in DOMAIN q : q[i] = 0 /\ QuotesBefore(q, i) % 2 = 0}
\* the terms of q: the longest pieces of q without such a blank
TermsOf(q) ==
    LET pieces == {x \in (DOMAIN q) \X (DOMAIN q) :
                      /\ x[1] <= x[2]
                      /\ \A k \in x[1]..x[2] : k \notin Separators(q)
                      /\ x[1] = 1 \/ (x[1] - 1) \in Separators(q)
                      /\ x[2] = Len(q) \/ (x[2] + 1) \in Separators(q)}
    IN {trim(SubSeq(q, x[1], x[2])) : x \in pieces} \ {<<>>}
\* the text a term looks for: without the dash, or without the two quotes
Needle(t) ==
    toLowerCase(IF t[1] = Dash THEN SubSeq(t, 2, Len(t))
                ELSE IF t[1] = Quote /\ t[Len(t)] = Quote
                THEN SubSeq(t, 2, Len(t) - 1)
                ELSE t)
\* x is part of the enabled fields of n, a blank between two fields
Contained(n, x) == includes(buildSearchText(n, EffFilters), x)
\* x is part of the title, of the stripped content or of one tag, if enabled
InOneField(n, x) ==
    \/ x = <<>>
    \/ field(EffFilters, "includeTitle", FALSE) /\ includes(toLowerCase(n.title), x)
    \/ /\ field(EffFilters, "includeContent", FALSE)
       /\ includes(toLowerCase(stripHTML(n.content)), x)
    \/ /\ field(EffFilters, "includeTags", FALSE)
       /\ \E i \in DOMAIN n.tags : includes(toLowerCase(n.tags[i]), x)
TermHolds(n, t) == IF t[1] = Dash THEN ~Contained(n, Needle(t)) ELSE Contained(n, Needle(t))
\* n passes the folder, tag and date filters
StructOK(n) ==
    LET f == EffFilters
    IN /\ field(f, "folders", {}) # {} => n.folderId \in f.folders
       /\ field(f, "tags", {}) # {} => elems(n.tags) \cap f.tags # {}
       /\ field(f, "dateFrom", Null) # Null => n.modifiedAt >= f.dateFrom
       /\ field(f, "dateTo", Null) # Null => n.modifiedAt <= f.dateTo

\* C28: with a text query, search returns in input order exactly the notes
\* (among those the structural filters keep) for which every term of the query
\* holds: a term with a leading dash when the rest is not contained in the
\* enabled fields, a quoted phrase when the phrase is contained as one piece,
\* any other term when it is contained
SearchTerms ==
    (smRet.called /\ trim(EffQuery) # <<>>) =>
        /\ smRet.notes = SelectSeq(SearchNotes, LAMBDA n : n \in elems(smRet.notes))
        /\ \A n \in elems(SearchNotes) :
              StructOK(n) =>
                  (n \in elems(smRet.notes)
                      <=> \A t \in TermsOf(EffQuery) : TermHolds(n, t))
        /\ \A n \in elems(SearchNotes), t \in TermsOf(EffQuery) :
              0 \notin elems(Needle(t))
                  => (Contained(n, Needle(t)) <=> InOneField(n, Needle(t)))

\* C28 witness: 'a -b' keeps the note titled 'A' and drops the three notes
\* that contain b
SearchTermsWitness ==
    /\ smRet.called
    /\ EffQuery = <<1, 0, Dash, 2>>
    /\ EffFilters = DefaultFilters
    /\ smRet.notes = <<SearchNotes[1]>>

IdUnique ==
    gLast.called => ~gLast.issuedBefore /\ ~gLast.overwrote

\* C32: every folder of the in-memory folder collection has a non-empty name
FolderNameInvariant ==
    \A i \in FolderIds : folders[i].present => folders[i].name # 0

\* the transactions deleteNote(id) has in the queue q: its store delete, its re-save
DeletesOf(q, id) == {i \in DOMAIN q : q[i].kind = "delete" /\ q[i].id = id}
ResavesOf(q, id) ==
    {i \in DOMAIN q : q[i].kind = "save" /\ q[i].cont = "deleteNote" /\ q[i].id = id}

\* C33: deleteNote(id) issues the store delete in a step that leaves the note
\* out of the cache; its re-save is started only in the step in which that
\* store delete completes with the record gone from the store; when the store
\* delete fails no re-save is started
DeleteOrdering ==
    [][\A id \in NoteIds :
          /\ Cardinality(DeletesOf(txQueue', id)) > Cardinality(DeletesOf(txQueue, id))
                => ~notes'[id].present
          /\ Cardinality(ResavesOf(txQueue', id)) > Cardinality(ResavesOf(txQueue, id))
                => /\ txQueue # <<>>
                   /\ Head(txQueue).kind = "delete"
                   /\ Head(txQueue).id = id
                   /\ Cardinality(DeletesOf(txQueue', id))
                         < Cardinality(DeletesOf(txQueue, id))
                   /\ ~dbNotes'[id].present
                   /\ failures' = failures
          /\ (/\ txQueue # <<>>
              /\ Head(txQueue).kind = "delete"
              /\ Head(txQueue).id = id
              /\ failures' # failures)
                => /\ Cardinality(ResavesOf(txQueue', id))
                      <= Cardinality(ResavesOf(txQueue, id))
                   /\ saveInProgress' = saveInProgress]_vars

\* C33 witness: the store delete of a note has completed and the re-save of the
\* remaining notes is in flight
DeleteOrderingWitness ==
    \E id \in NoteIds :
        /\ ResavesOf(txQueue, id) # {}
        /\ ~notes[id].present
        /\ ~dbNotes[id].present
        /\ \E j \in NoteIds : notes[j].present

\* C34: once a deleteNote(id) that was called during a load has returned true
\* and no load, save or delete is in flight, note id is neither in the cache
\* nor in the store
DeleteSurvivesLoad ==
    \A id \in deleteRaced :
        (id \in deletedOk /\ txQueue = <<>> /\ ~loadInProgress)
            => ~notes[id].present /\ ~dbNotes[id].present

\* the transaction created last
NewestTx == txQueue'[Len(txQueue')]
\* a store delete was created in this step (deleteNote saves only after it)
DeleteStarted ==
    /\ Len(txQueue') > Len(txQueue)
    /\ NewestTx.kind = "delete"
\* the step is a mutation of the cache by a repository method
Mutates ==
    /\ ops' = ops + 1
    /\ notes' # notes \/ folders' # folders
    /\ ~DeleteStarted
\* deleteFolder mutates once per member note and starts its save at the
\* first of these mutations: the cache as it was at that moment
FirstMember == CHOOSE k \in DOMAIN noteOrder :
                  /\ notes[noteOrder[k]].folderId = ret'.id
                  /\ \A j \in 1..(k - 1) : notes[noteOrder[j]].folderId # ret'.id
InLoop == ret'.op = "deleteFolder" /\ ret'.members # {}
NotesAtStart ==
    IF InLoop THEN [notes EXCEPT ![noteOrder[FirstMember]].folderId = Null]
    ELSE notes'
FoldersAtStart == IF InLoop THEN folders ELSE folders'
\* tx puts every note of ns and every folder of fs that has a name
Covers(tx, ns, fs) ==
    /\ \A i \in NoteIds : ns[i].present => tx.notes[i] = ns[i]
    /\ \A f \in FolderIds : (fs[f].present /\ fs[f].name # 0) => tx.folders[f] = fs[f]

SyncLiveness ==
    \A id \in NoteIds :
        (dbNotes[id].present /\ ~IsSynced(dbNotes[id]))
            ~> (~dbNotes[id].present \/ IsSynced(dbNotes[id]))

\* a cycle has marked a record while the page was working on its notes, and
\* the record is synced in the store
SyncLivenessWitness ==
    \E k \in DOMAIN swLog :
        /\ swLog[k].id \in NoteIds
        /\ swLog[k].mark = "ok"
        /\ IsSynced(dbNotes[swLog[k].id])
        /\ ops > 0

\* a step of the service worker's sync cycle
SyncStep == syncVars' # syncVars

\* C37: a step of a sync cycle changes nothing in the store but the synced
\* field of records that are there when the mark runs: it creates no record,
\* deletes none and leaves every other field as the repository wrote it
SyncFrame ==
    [][SyncStep =>
          \A i \in NoteIds :
              IF dbNotes[i].present
              THEN dbNotes'[i] = dbNotes[i] \/ dbNotes'[i] = Synced(dbNotes[i])
              ELSE ~dbNotes'[i].present]_vars

\* one cycle has marked a note whose favourite flag the page had set and saved
\* while the push was in flight, and has found another note deleted at its
\* mark: the first record is synced with the flag, the second is absent
SyncFrameWitness ==
    \E j, k \in DOMAIN swLog :
        /\ swLog[j].id \in NoteIds /\ swLog[k].id \in NoteIds
        /\ swLog[j].mark = "ok"
        /\ dbNotes[swLog[j].id].present
        /\ IsSynced(dbNotes[swLog[j].id])
        /\ dbNotes[swLog[j].id].isFavorite
        /\ swLog[k].mark = "gone"
        /\ ~dbNotes[swLog[k].id].present

\* the page has made at most one call, and it has neither changed nor deleted
\* a note: no note of the cache is a favourite (the stored ones were not when
\* the page loaded them) and every note ever in the cache is still there
NoNoteTouched ==
    /\ ops <= 1
    /\ Len(noteOrder) = nextNoteId - 1
    /\ \A i \in NoteIds : notes[i].present => ~notes[i].isFavorite

\* C38: a record that this sync cycle has marked synced, and that the page has
\* not created, updated or deleted since, is synced in the store
SyncedStable ==
    \A k \in DOMAIN swLog :
        (/\ swLog[k].id \in NoteIds
         /\ swLog[k].mark = "ok"
         /\ NoNoteTouched)
            => IsSynced(dbNotes[swLog[k].id])

\* the step is a call of toggleFavorite
ToggleStep ==
    /\ edOps' = edOps + 1
    /\ cacheRef' = cacheRef
    /\ heap' = [heap EXCEPT ![cacheRef].isFavorite = ~heap[cacheRef].isFavorite]

\* C39: the favourite flag of the note in the cache changes in no step but a
\* toggleFavorite, so the value a toggle set stays until the next toggle
\* whatever saveCurrentNote / updateNote calls come between
FavoriteKept ==
    [][heap'[cacheRef'].isFavorite # heap[cacheRef].isFavorite => ToggleStep]_vars

\* the operations of a sequence, and sequences in submission order
Elems(q) == {q[k] : k \in DOMAIN q}
Ascending(q) == \A j, k \in DOMAIN q : j < k => q[j] < q[k]

\* C40: at most one operation runs at a time and operations are called in
\* the order of their submission; a caller's promise is settled with the
\* result or error of its own operation, or with the error of close() when
\* the operation was never called; while operations wait one is running, so
\* a failed operation does not stop the later ones; and close() rejects
\* every waiting operation and leaves the queue empty
OperationQueue ==
    /\ [](/\ Cardinality(opRunning) <= 1
          /\ Ascending(opStarted \o operationQueue)
          /\ opRunning \subseteq Elems(opStarted)
          /\ operationQueue # <<>> => opRunning # {}
          /\ isProcessingQueue <=> opRunning # {}
          /\ \A id \in QueueOps :
                /\ opPromise[id].state = "pending"
                      <=> id \in opRunning \cup Elems(operationQueue)
                /\ opPromise[id].state = "resolved"
                      => opPromise[id].of = id /\ opKind[id] = "resolves"
                /\ opPromise[id].state = "rejected"
                      => \/ /\ opPromise[id].of = id
                            /\ opKind[id] \in {"rejects", "throws"}
                            /\ id \in Elems(opStarted)
                         \/ /\ opPromise[id].of = 0
                            /\ id \notin Elems(opStarted))
    /\ [][opLast'.op = "close"
            => /\ operationQueue' = <<>>
               /\ \A id \in Elems(opLast'.waiting) :
                      opPromise'[id] = Settled("rejected", 0)]_vars

\* the first operation failed, the second ran after it and resolved, and a
\* later one was rejected by close() while it waited behind a running one
OperationQueueWitness ==
    /\ opPromise[1] = Settled("rejected", 1)
    /\ opPromise[2] = Settled("resolved", 2)
    /\ opStarted = <<1, 2, 4>>
    /\ opPromise[3] = Settled("rejected", 0)
    /\ opLast.op = "settle"

=============================================================================
